---------------------------- MODULE Spec2Model ----------------------------
(***************************************************************************)
(* A model of the convolutional-neural-network crate and of its           *)
(* cat_dog_classification trainers.                                        *)
(*                                                                         *)
(* Numbers.  The crate computes in f32.  The model computes in exact       *)
(* rational arithmetic: a number is a pair <<n, d>> in lowest terms with   *)
(* d > 0, so 0.5 is <<1, 2>> and 0.9 is <<9, 10>>.  Rounding is not        *)
(* modelled; every statement below is a statement in exact arithmetic.     *)
(*                                                                         *)
(* Vectors.  A Vec<f32> is a sequence; the element the code addresses as   *)
(* v[i] is v[i + 1] here (At and Put do the shift and are only used with   *)
(* an index the caller has bounds-checked, as Rust's indexing does).       *)
(*                                                                         *)
(* Aborts.  A Rust panic (index out of range, checked arithmetic in a      *)
(* build with overflow checks) ends the process; an operation that panics  *)
(* reports the outcome Panic.                                              *)
(***************************************************************************)
EXTENDS Integers, Sequences, FiniteSets, TLC

VARIABLES
    call,            \* geometry: the arguments of the utility call under study
    answer,          \* geometry: what the call returned (Pending before it ran)
    verdict,         \* geometry: a call of check_output_dimension with the same arguments and its result, if made
    offsets,         \* geometry: what get_index returned for the positions scanned so far
    upstream,        \* layer pair: the layer nearer the input
    downstream,      \* layer pair: the layer nearer the output
    outcome,         \* layer pair: result of the last pairing operation
    overflow_checks, \* TRUE for a build with overflow checks (debug), FALSE for release
    neural_network,  \* network: the NeuralNetwork under study
    training,        \* network: the next call of the training step and the log of finished steps
    instances,       \* trainer: the live NeuralNetwork objects, by identity (0 is the caller's)
    job,             \* trainer: the arguments of train()
    coordinator,     \* trainer: the thread running train()
    workers,         \* trainer: the threads spawned for the current batch
    channel          \* trainer: the mpsc channel of the current batch

vars == <<call, answer, verdict, offsets, upstream, downstream, outcome, overflow_checks,
          neural_network, training, instances, job, coordinator, workers, channel>>

geometryVars == <<call, answer, verdict, offsets>>
pairVars == <<upstream, downstream, outcome, overflow_checks>>
networkVars == <<neural_network, training>>
trainerVars == <<instances, job, coordinator, workers, channel>>

---------------------------------------------------------------------------
(* Bounds of the model *)

\* largest width and height of a volume in the geometry and layer-pair specifications
MaxDim == 3

\* most cells of an upstream volume feeding a pooling layer in the layer-pair specification
MaxPoolCells == 6

\* most cells of an upstream volume feeding a convolutional layer in the layer-pair specification
MaxConvCells == 4

---------------------------------------------------------------------------
(* Exact numbers *)

\* let v = value; F(v): the value is computed once, before F uses it
Bind(value, F(_)) == CHOOSE r \in { F(v) : v \in {value} } : TRUE

\* the same for two values
Bind2(first, second, F(_, _)) == CHOOSE r \in { F(v, w) : v \in {first}, w \in {second} } : TRUE

Abs(n) == IF n < 0 THEN -n ELSE n

RECURSIVE Gcd(_, _)
Gcd(a, b) == IF b = 0 THEN a ELSE Bind(a % b, LAMBDA r : Gcd(b, r))

\* the rational n/d (d # 0) in lowest terms with a positive denominator
Rat(n, d) ==
    Bind2(n, d, LAMBDA x, y :
        Bind(Gcd(Abs(x), Abs(y)), LAMBDA g :
            IF y < 0 THEN <<-(x \div g), -(y \div g)>> ELSE <<x \div g, y \div g>>))

R(n) == <<n, 1>>
Zero == R(0)
One == R(1)

RAdd(a, b) ==
    Bind2(a, b, LAMBDA x, y :
        Bind(Gcd(x[2], y[2]), LAMBDA g :
            Rat(x[1] * (y[2] \div g) + y[1] * (x[2] \div g), x[2] * (y[2] \div g))))

RNeg(a) == Bind(a, LAMBDA x : <<-x[1], x[2]>>)

RSub(a, b) == RAdd(a, RNeg(b))

RMul(a, b) ==
    Bind2(a, b, LAMBDA x, y :
        IF x[1] = 0 \/ y[1] = 0 THEN Zero
        ELSE Bind2(Gcd(Abs(x[1]), y[2]), Gcd(Abs(y[1]), x[2]), LAMBDA g1, g2 :
                <<(x[1] \div g1) * (y[1] \div g2), (x[2] \div g2) * (y[2] \div g1)>>))

\* a / b for b # 0
RDiv(a, b) == RMul(a, Bind(b, LAMBDA y : Rat(y[2], y[1])))

RLt(a, b) == Bind2(a, b, LAMBDA x, y : x[1] * y[2] < y[1] * x[2])

RLe(a, b) == Bind2(a, b, LAMBDA x, y : x[1] * y[2] <= y[1] * x[2])

\* f32::max
RMax(a, b) == Bind2(a, b, LAMBDA x, y : IF RLt(x, y) THEN y ELSE x)

\* vec![0.0; n]
Zeros(n) == [i \in 1..n |-> Zero]

\* v[i] of the code, for 0 <= i < v.len()
At(v, i) == v[i + 1]

\* v[i] = x of the code, for 0 <= i < v.len()
Put(v, i, x) == [v EXCEPT ![i + 1] = x]

InRange(v, i) == i >= 0 /\ i < Len(v)

\* the values (0..n).step_by(s) yields, in order, for s >= 1
StepBy(n, s) == [i \in 1..((n + s - 1) \div s) |-> (i - 1) * s]

---------------------------------------------------------------------------
(* Outcomes *)

Ok == "Ok"
DimensionMismatch == "DimensionMismatch"
IncompatibleLayers == "IncompatibleLayers"
ImpossibleOutputDimension == "ImpossibleOutputDimension"
InvalidInput == "InvalidInput"
Panic == "Panic"
Pending == "Pending"

Errors == {DimensionMismatch, IncompatibleLayers, ImpossibleOutputDimension, InvalidInput}

\* Option<T>
None == <<>>
Some(v) == <<v>>

---------------------------------------------------------------------------
(* util.rs *)

\* the faulty variant of get_output_dimension that rounds the strided length down
get_output_dimension_floor(dimension, zero_padding, num_kernels, kernel_size, stride) ==
    IF \/ num_kernels = 0
       \/ kernel_size = 0
       \/ stride = 0
       \/ dimension[1] = 0
       \/ dimension[2] = 0
       \/ dimension[3] = 0
    THEN None
    ELSE LET padded_x == dimension[1] + zero_padding * 2
             padded_y == dimension[2] + zero_padding * 2
         IN  IF kernel_size - 1 >= padded_x \/ kernel_size - 1 >= padded_y
             THEN None
             ELSE LET length_x == padded_x - kernel_size + 1
                      length_y == padded_y - kernel_size + 1
                      result_x == length_x \div stride
                      result_y == length_y \div stride
                  IN  IF result_x = 0 \/ result_y = 0
                      THEN None
                      ELSE Some(<<result_x, result_y, num_kernels>>)

get_output_dimension(dimension, zero_padding, num_kernels, kernel_size, stride) ==
    IF \/ num_kernels = 0
       \/ kernel_size = 0
       \/ stride = 0
       \/ dimension[1] = 0
       \/ dimension[2] = 0
       \/ dimension[3] = 0
    THEN None
    ELSE LET padded_x == dimension[1] + zero_padding * 2
             padded_y == dimension[2] + zero_padding * 2
         IN  IF kernel_size - 1 >= padded_x \/ kernel_size - 1 >= padded_y
             THEN None
             ELSE LET length_x == padded_x - kernel_size + 1
                      length_y == padded_y - kernel_size + 1
                      result_x == (length_x + stride - 1) \div stride
                      result_y == (length_y + stride - 1) \div stride
                  IN  IF result_x = 0 \/ result_y = 0
                      THEN None
                      ELSE Some(<<result_x, result_y, num_kernels>>)

\* the faulty variant of check_output_dimension that does not compare the depth
check_output_dimension_planar(dimension, expected_dimension, zero_padding, num_kernels, kernel_size, stride) ==
    LET output_dim == get_output_dimension(dimension, zero_padding, num_kernels, kernel_size, stride)
    IN  IF output_dim # None
        THEN IF \/ output_dim[1][1] # expected_dimension[1]
                \/ output_dim[1][2] # expected_dimension[2]
             THEN DimensionMismatch
             ELSE Ok
        ELSE ImpossibleOutputDimension

check_output_dimension(dimension, expected_dimension, zero_padding, num_kernels, kernel_size, stride) ==
    LET output_dim == get_output_dimension(dimension, zero_padding, num_kernels, kernel_size, stride)
    IN  IF output_dim # None
        THEN IF \/ output_dim[1][1] # expected_dimension[1]
                \/ output_dim[1][2] # expected_dimension[2]
                \/ output_dim[1][3] # expected_dimension[3]
             THEN DimensionMismatch
             ELSE Ok
        ELSE ImpossibleOutputDimension

\* the faulty variant of get_index that strides x by the width
get_index_by_width(position, dimension) ==
    position[3] + dimension[3] * (position[2] + dimension[1] * position[1])

get_index(position, dimension) ==
    position[3] + dimension[3] * (position[2] + dimension[2] * position[1])

get_kernel_index(position, kernel_size, input_depth) ==
    position[4] * (kernel_size * kernel_size * input_depth)
    + position[3] * (kernel_size * kernel_size)
    + position[2] * kernel_size
    + position[1]

\* query_zero_padded evaluates input_dimension.0 - zero_padding or
\* input_dimension.1 - zero_padding below zero (the tests short-circuit in the
\* order written): a panic with overflow checks, a wrap to a value near 2^64
\* without
query_zero_padded_underflows(position, input_dimension, zero_padding) ==
    /\ position[1] >= zero_padding
    /\ \/ zero_padding > input_dimension[1]
       \/ /\ position[1] < input_dimension[1] - zero_padding
          /\ position[2] >= zero_padding
          /\ zero_padding > input_dimension[2]

\* x >= extent - zero_padding in usize arithmetic; the wrapped difference exceeds
\* every coordinate
usize_ge_difference(x, extent, zero_padding) ==
    IF zero_padding > extent THEN FALSE ELSE x >= extent - zero_padding

query_zero_padded(position, input_dimension, zero_padding) ==
    LET x == position[1]
        y == position[2]
        z == position[3]
    IN  IF \/ x < zero_padding
           \/ usize_ge_difference(x, input_dimension[1], zero_padding)
           \/ y < zero_padding
           \/ usize_ge_difference(y, input_dimension[2], zero_padding)
        THEN None
        ELSE Some(get_index(<<x - zero_padding, y - zero_padding, z>>, input_dimension))

---------------------------------------------------------------------------
(* activations.rs.  Sigmoid needs exp and has no exact value; the model covers
   ReLU, LeakyReLU(slope) and None. *)

ReLU == <<"ReLU">>
NoActivation == <<"None">>
LeakyReLU(slope) == <<"LeakyReLU", slope>>

relu(x) == RMax(x, Zero)

leaky_relu(x, slope) == RMax(x, RMul(x, slope))

relu_derivative(x) == IF RLe(x, Zero) THEN Zero ELSE One

leaky_relu_derivative(x, slope) == IF RLt(x, Zero) THEN slope ELSE One

activations_eval(function_type, x) ==
    CASE function_type[1] = "ReLU" -> relu(x)
      [] function_type[1] = "LeakyReLU" -> leaky_relu(x, function_type[2])
      [] OTHER -> x

activations_eval_derivative(function_type, x) ==
    CASE function_type[1] = "ReLU" -> relu_derivative(x)
      [] function_type[1] = "LeakyReLU" -> leaky_relu_derivative(x, function_type[2])
      [] OTHER -> One

---------------------------------------------------------------------------
(* Layers: convolutional_layer.rs, pooling_layer.rs, fully_connected_layer.rs *)

Convolutional == "Convolutional"
Pooling == "Pooling"
FullyConnected == "FullyConnected"

PoolingMax == "Max"
PoolingAverage == "Average"

ConvolutionalLayer_new(zero_padding, stride, kernel_size, dimension, input_depth) ==
    LET depth == dimension[3]
        cells == dimension[1] * dimension[2] * depth
        weights == kernel_size * kernel_size * input_depth * depth
    IN  [ kind |-> Convolutional,
          stride |-> stride,
          kernel_size |-> kernel_size,
          num_kernels |-> depth,
          dimension |-> dimension,
          volume |-> Zeros(cells),
          volume_gradients |-> Zeros(cells),
          back_activated_volume |-> Zeros(cells),
          bias_gradients |-> Zeros(depth),
          kernel_gradients |-> Zeros(weights),
          bias_velocity |-> Zeros(depth),
          kernel_velocity |-> Zeros(weights),
          raw_volume |-> Zeros(cells),
          zero_padding |-> zero_padding,
          biases |-> Zeros(depth),
          kernel |-> Zeros(weights),
          input_depth |-> input_depth ]

PoolingLayer_new(pooling_type, zero_padding, stride, kernel_size, dimension) ==
    [ kind |-> Pooling,
      pooling_type |-> pooling_type,
      zero_padding |-> zero_padding,
      stride |-> stride,
      kernel_size |-> kernel_size,
      dimension |-> dimension,
      volume |-> Zeros(dimension[1] * dimension[2] * dimension[3]),
      volume_gradients |-> Zeros(dimension[1] * dimension[2] * dimension[3]) ]

FullyConnectedLayer_new(num_inputs, num_neurons) ==
    [ kind |-> FullyConnected,
      num_inputs |-> num_inputs,
      num_neurons |-> num_neurons,
      raw_values |-> Zeros(num_neurons),
      back_activated_values |-> Zeros(num_neurons),
      values |-> Zeros(num_neurons),
      weights |-> Zeros(num_inputs * num_neurons),
      biases |-> Zeros(num_neurons),
      value_gradients |-> Zeros(num_neurons),
      weight_gradients |-> Zeros(num_inputs * num_neurons),
      bias_gradients |-> Zeros(num_neurons),
      weight_velocity |-> Zeros(num_inputs * num_neurons),
      bias_velocity |-> Zeros(num_neurons) ]

make_input_layer(zero_padding, dimension) ==
    ConvolutionalLayer_new(zero_padding, 0, 0, dimension, 0)

\* set_volume, set_kernel, set_biases: the layer and the result
set_volume(self, volume) ==
    IF Len(self.volume) # Len(volume)
    THEN [layer |-> self, result |-> DimensionMismatch]
    ELSE [layer |-> [self EXCEPT !.volume = volume], result |-> Ok]

set_kernel(self, kernel) ==
    IF Len(self.kernel) # Len(kernel)
    THEN [layer |-> self, result |-> InvalidInput]
    ELSE [layer |-> [self EXCEPT !.kernel = kernel], result |-> Ok]

set_biases(self, biases) ==
    IF Len(self.biases) # Len(biases)
    THEN [layer |-> self, result |-> InvalidInput]
    ELSE [layer |-> [self EXCEPT !.biases = biases], result |-> Ok]

\* The kernel window in scan order, kernel_y outer and kernel_x inner: the n-th
\* tap (n from 1) as <<kernel_x, kernel_y>>
KernelScan(kernel_size) ==
    [n \in 1..(kernel_size * kernel_size) |->
        <<(n - 1) % kernel_size, (n - 1) \div kernel_size>>]

\* The taps of one convolution window in loop order (z, kernel_y, kernel_x):
\* <<kernel_x, kernel_y, z>>
ConvolutionTaps(kernel_size, depth) ==
    [n \in 1..(depth * kernel_size * kernel_size) |->
        <<(n - 1) % kernel_size,
          ((n - 1) \div kernel_size) % kernel_size,
          (n - 1) \div (kernel_size * kernel_size)>>]

\* The output positions of ConvolutionalLayer::convolve and convolve_back in
\* loop order (k, x, y): <<x, y, o_x, o_y, k>>
ConvolutionCells(self, input_dimension, zero_padding) ==
    LET xs == StepBy(input_dimension[1] + zero_padding * 2 - self.kernel_size + 1, self.stride)
        ys == StepBy(input_dimension[2] + zero_padding * 2 - self.kernel_size + 1, self.stride)
        nx == Len(xs)
        ny == Len(ys)
    IN  [n \in 1..(self.num_kernels * nx * ny) |->
            LET o_y == (n - 1) % ny
                o_x == ((n - 1) \div ny) % nx
                k == (n - 1) \div (nx * ny)
            IN  <<xs[o_x + 1], ys[o_y + 1], o_x, o_y, k>>]

\* the lookup of one tap of the window at cell c
ConvolutionLookup(c, tap, input_dimension, zero_padding) ==
    query_zero_padded(<<c[1] + tap[1], c[2] + tap[2], tap[3]>>, input_dimension, zero_padding)

ConvolutionLookupUnderflows(c, tap, input_dimension, zero_padding) ==
    query_zero_padded_underflows(<<c[1] + tap[1], c[2] + tap[2], tap[3]>>, input_dimension, zero_padding)

\* ConvolutionalLayer::convolve aborts: a checked subtraction below zero in
\* query_zero_padded, or an index outside the vector it addresses
convolve_panics(self, input_dimension, volume, zero_padding) ==
    \E cells \in {ConvolutionCells(self, input_dimension, zero_padding)},
       taps \in {ConvolutionTaps(self.kernel_size, input_dimension[3])} :
        \E n \in 1..Len(cells) : \E c \in {cells[n]} :
            \/ ~InRange(self.raw_volume, get_index(<<c[3], c[4], c[5]>>, self.dimension))
            \/ ~InRange(self.biases, c[5])
            \/ \E t \in 1..Len(taps) : \E tap \in {taps[t]} :
                  \/ /\ overflow_checks
                     /\ ConvolutionLookupUnderflows(c, tap, input_dimension, zero_padding)
                  \/ \E index \in {ConvolutionLookup(c, tap, input_dimension, zero_padding)} :
                         /\ index # None
                         /\ \/ ~InRange(volume, index[1])
                            \/ ~InRange(self.kernel,
                                        get_kernel_index(<<tap[1], tap[2], tap[3], c[5]>>,
                                                         self.kernel_size, self.input_depth))

\* the value the window at cell c accumulates before the bias is added
convolve_value(self, c, input_dimension, volume, zero_padding) ==
    Bind(ConvolutionTaps(self.kernel_size, input_dimension[3]), LAMBDA taps :
        LET tapped(before, tap, index) ==
                IF index # None
                THEN RAdd(before,
                          RMul(At(volume, index[1]),
                               At(self.kernel,
                                  get_kernel_index(<<tap[1], tap[2], tap[3], c[5]>>,
                                                   self.kernel_size, self.input_depth))))
                ELSE before
            value[t \in 0..Len(taps)] ==
                IF t = 0 THEN Zero
                ELSE Bind(value[t - 1], LAMBDA before :
                        Bind2(taps[t], ConvolutionLookup(c, taps[t], input_dimension, zero_padding),
                              LAMBDA tap, index : tapped(before, tap, index)))
        IN  value[Len(taps)])

\* ConvolutionalLayer::convolve, when it does not abort: the layer afterwards
convolve(self, input_dimension, volume, zero_padding) ==
    Bind(ConvolutionCells(self, input_dimension, zero_padding), LAMBDA cells :
        LET stored(before, index, output) ==
                [before EXCEPT !.raw_volume = Put(@, index, output), !.volume = Put(@, index, output)]
            layer[n \in 0..Len(cells)] ==
                IF n = 0 THEN self
                ELSE Bind2(layer[n - 1], cells[n], LAMBDA before, c :
                        Bind2(get_index(<<c[3], c[4], c[5]>>, self.dimension),
                              RAdd(convolve_value(self, c, input_dimension, volume, zero_padding),
                                   At(self.biases, c[5])),
                              LAMBDA index, output : stored(before, index, output)))
        IN  layer[Len(cells)])

\* ConvolutionalLayer::convolve_back aborts
convolve_back_panics(self, input_dimension, volume, volume_gradients, zero_padding) ==
    \E cells \in {ConvolutionCells(self, input_dimension, zero_padding)},
       taps \in {ConvolutionTaps(self.kernel_size, input_dimension[3])} :
        \E n \in 1..Len(cells) : \E c \in {cells[n]} :
            \E index \in {get_index(<<c[3], c[4], c[5]>>, self.dimension)} :
                \/ ~InRange(self.back_activated_volume, index)
                \/ /\ At(self.back_activated_volume, index) # Zero
                   /\ \/ ~InRange(self.bias_gradients, c[5])
                      \/ \E t \in 1..Len(taps) : \E tap \in {taps[t]} :
                            \/ /\ overflow_checks
                               /\ ConvolutionLookupUnderflows(c, tap, input_dimension, zero_padding)
                            \/ \E ind \in {ConvolutionLookup(c, tap, input_dimension, zero_padding)},
                                  kernel_index \in {get_kernel_index(<<tap[1], tap[2], tap[3], c[5]>>,
                                                                     self.kernel_size, self.input_depth)} :
                                   /\ ind # None
                                   /\ \/ ~InRange(volume, ind[1])
                                      \/ ~InRange(volume_gradients, ind[1])
                                      \/ ~InRange(self.kernel_gradients, kernel_index)
                                      \/ ~InRange(self.kernel, kernel_index)

\* ConvolutionalLayer::convolve_back, when it does not abort: the layer and the
\* upstream gradient buffer afterwards
convolve_back(self, input_dimension, volume, volume_gradients, zero_padding) ==
    Bind2(ConvolutionCells(self, input_dimension, zero_padding),
          ConvolutionTaps(self.kernel_size, input_dimension[3]), LAMBDA cells, taps :
        LET tapped(before, kernel_index, ind, derivative) ==
                IF ind # None
                THEN [ layer |-> [before.layer EXCEPT !.kernel_gradients =
                                    Put(@, kernel_index,
                                        RAdd(At(@, kernel_index), RMul(At(volume, ind[1]), derivative)))],
                       gradients |-> Put(before.gradients, ind[1],
                                         RAdd(At(before.gradients, ind[1]),
                                              RMul(At(self.kernel, kernel_index), derivative))) ]
                ELSE before
            scatter(state, c, derivative) ==
                LET after[t \in 0..Len(taps)] ==
                        IF t = 0 THEN state
                        ELSE Bind(after[t - 1], LAMBDA before :
                                Bind2(get_kernel_index(<<taps[t][1], taps[t][2], taps[t][3], c[5]>>,
                                                       self.kernel_size, self.input_depth),
                                      ConvolutionLookup(c, taps[t], input_dimension, zero_padding),
                                      LAMBDA kernel_index, ind : tapped(before, kernel_index, ind, derivative)))
                IN  after[Len(taps)]
            biased(scattered, c, derivative) ==
                [ layer |-> [scattered.layer EXCEPT !.bias_gradients =
                                Put(@, c[5], RAdd(At(@, c[5]), RMul(derivative, R(input_dimension[3]))))],
                  gradients |-> scattered.gradients ]
            run[n \in 0..Len(cells)] ==
                IF n = 0 THEN [layer |-> self, gradients |-> Zeros(Len(volume_gradients))]
                ELSE Bind2(run[n - 1], cells[n], LAMBDA before, c :
                        Bind(At(self.back_activated_volume, get_index(<<c[3], c[4], c[5]>>, self.dimension)),
                             LAMBDA derivative :
                                IF derivative = Zero
                                THEN before
                                ELSE Bind(scatter(before, c, derivative),
                                          LAMBDA scattered : biased(scattered, c, derivative))))
        IN  run[Len(cells)])

\* The output positions of PoolingLayer::convolve and convolve_back in loop order
\* (x, y, z): <<x, y, o_x, o_y, z>>
PoolingCells(self, input_dimension) ==
    LET xs == StepBy(input_dimension[1] - self.kernel_size + 1, self.stride)
        ys == StepBy(input_dimension[2] - self.kernel_size + 1, self.stride)
        ny == Len(ys)
        nz == input_dimension[3]
    IN  [n \in 1..(Len(xs) * ny * nz) |->
            LET z == (n - 1) % nz
                o_y == ((n - 1) \div nz) % ny
                o_x == (n - 1) \div (nz * ny)
            IN  <<xs[o_x + 1], ys[o_y + 1], o_x, o_y, z>>]

\* the input cell under tap <<kernel_x, kernel_y>> of the window at cell c
PoolingInputIndex(c, tap, input_dimension) ==
    get_index(<<c[1] + tap[1], c[2] + tap[2], c[5]>>, input_dimension)

\* PoolingLayer::convolve aborts
pooling_convolve_panics(self, input_dimension, volume) ==
    LET cells == PoolingCells(self, input_dimension)
        taps == KernelScan(self.kernel_size)
    IN  \E n \in 1..Len(cells) :
            \/ ~InRange(self.volume, get_index(<<cells[n][3], cells[n][4], cells[n][5]>>, self.dimension))
            \/ \E t \in 1..Len(taps) : ~InRange(volume, PoolingInputIndex(cells[n], taps[t], input_dimension))

\* PoolingType::Max in PoolingLayer::convolve: value starts at 0.0 and takes
\* value.max(val) over the window
pooling_max_value(c, input_dimension, volume, kernel_size) ==
    LET taps == KernelScan(kernel_size)
        value[t \in 0..Len(taps)] ==
            IF t = 0 THEN Zero
            ELSE RMax(value[t - 1], At(volume, PoolingInputIndex(c, taps[t], input_dimension)))
    IN  value[Len(taps)]

\* 1.0 / (kernel_size as f32 * kernel_size as f32)
kernel_volume(kernel_size) == RDiv(One, RMul(R(kernel_size), R(kernel_size)))

\* PoolingType::Average in PoolingLayer::convolve
pooling_average_value(c, input_dimension, volume, kernel_size) ==
    LET taps == KernelScan(kernel_size)
        value[t \in 0..Len(taps)] ==
            IF t = 0 THEN Zero
            ELSE RAdd(value[t - 1], At(volume, PoolingInputIndex(c, taps[t], input_dimension)))
    IN  RMul(value[Len(taps)], kernel_volume(kernel_size))

\* PoolingLayer::convolve, when it does not abort: the layer afterwards
pooling_convolve(self, input_dimension, volume) ==
    LET cells == PoolingCells(self, input_dimension)
        layer[n \in 0..Len(cells)] ==
            IF n = 0 THEN self
            ELSE LET c == cells[n]
                     value == IF self.pooling_type = PoolingMax
                              THEN pooling_max_value(c, input_dimension, volume, self.kernel_size)
                              ELSE pooling_average_value(c, input_dimension, volume, self.kernel_size)
                 IN  [layer[n - 1] EXCEPT !.volume =
                        Put(@, get_index(<<c[3], c[4], c[5]>>, self.dimension), value)]
    IN  layer[Len(cells)]

\* PoolingLayer::convolve_back aborts
pooling_convolve_back_panics(self, input_dimension, volume, volume_gradients) ==
    LET cells == PoolingCells(self, input_dimension)
        taps == KernelScan(self.kernel_size)
    IN  \E n \in 1..Len(cells) :
            \/ ~InRange(self.volume_gradients, get_index(<<cells[n][3], cells[n][4], cells[n][5]>>, self.dimension))
            \/ \E t \in 1..Len(taps) :
                  LET index == PoolingInputIndex(cells[n], taps[t], input_dimension)
                  IN  ~InRange(volume, index) \/ ~InRange(volume_gradients, index)

\* the faulty variant of the arg-max scan that keeps the last maximal cell
pooling_max_index_last(c, input_dimension, volume, kernel_size) ==
    LET taps == KernelScan(kernel_size)
        best[t \in 0..Len(taps)] ==
            IF t = 0
            THEN LET max_index == get_index(<<c[1], c[2], c[5]>>, input_dimension)
                 IN  <<max_index, At(volume, max_index)>>
            ELSE LET index == PoolingInputIndex(c, taps[t], input_dimension)
                     val == At(volume, index)
                     before == best[t - 1]
                 IN  IF RLe(before[2], val) THEN <<index, val>> ELSE before
    IN  best[Len(taps)][1]

\* the arg-max scan of PoolingLayer::convolve_back: max_index after the window
\* has been scanned
pooling_max_index(c, input_dimension, volume, kernel_size) ==
    LET taps == KernelScan(kernel_size)
        best[t \in 0..Len(taps)] ==
            IF t = 0
            THEN LET max_index == get_index(<<c[1], c[2], c[5]>>, input_dimension)
                 IN  <<max_index, At(volume, max_index)>>
            ELSE LET index == PoolingInputIndex(c, taps[t], input_dimension)
                     val == At(volume, index)
                     before == best[t - 1]
                 IN  IF RLt(before[2], val) THEN <<index, val>> ELSE before
    IN  best[Len(taps)][1]

\* the faulty variant of the Average share that divides by kernel_size only
pooling_average_share_by_side(gradient, kernel_size) ==
    RDiv(gradient, R(kernel_size))

\* self.volume_gradients[output_index] * kernel_volume
pooling_average_share(gradient, kernel_size) ==
    RMul(gradient, kernel_volume(kernel_size))

\* PoolingLayer::convolve_back, when it does not abort: the upstream gradient
\* buffer afterwards
pooling_convolve_back(self, input_dimension, volume, volume_gradients) ==
    LET cells == PoolingCells(self, input_dimension)
        taps == KernelScan(self.kernel_size)
        spread(gradients, c, share) ==
            LET after[t \in 0..Len(taps)] ==
                    IF t = 0 THEN gradients
                    ELSE LET index == PoolingInputIndex(c, taps[t], input_dimension)
                             before == after[t - 1]
                         IN  Put(before, index, RAdd(At(before, index), share))
            IN  after[Len(taps)]
        run[n \in 0..Len(cells)] ==
            IF n = 0 THEN Zeros(Len(volume_gradients))
            ELSE LET c == cells[n]
                     output_index == get_index(<<c[3], c[4], c[5]>>, self.dimension)
                     gradient == At(self.volume_gradients, output_index)
                     before == run[n - 1]
                 IN  IF self.pooling_type = PoolingMax
                     THEN LET max_index == pooling_max_index(c, input_dimension, volume, self.kernel_size)
                          IN  Put(before, max_index, RAdd(At(before, max_index), gradient))
                     ELSE spread(before, c, pooling_average_share(gradient, self.kernel_size))
    IN  run[Len(cells)]

\* FullyConnectedLayer::get_weight
get_weight(self, input, neuron) == neuron * self.num_inputs + input

\* FullyConnectedLayer::feed_forward aborts
feed_forward_panics(self, input) ==
    \/ self.num_neurons > Len(self.biases)
    \/ self.num_neurons > Len(self.values)
    \/ self.num_neurons > Len(self.raw_values)
    \/ /\ self.num_neurons > 0
       /\ \/ self.num_inputs > Len(input)
          \/ self.num_inputs * self.num_neurons > Len(self.weights)

\* FullyConnectedLayer::feed_forward, when it does not abort
feed_forward(self, input) ==
    LET neuron(i) ==
            LET value[j \in 0..self.num_inputs] ==
                    IF j = 0 THEN At(self.biases, i)
                    ELSE RAdd(value[j - 1],
                              RMul(At(input, j - 1), At(self.weights, get_weight(self, j - 1, i))))
            IN  value[self.num_inputs]
        values == [i \in 1..self.num_neurons |-> neuron(i - 1)]
    IN  [self EXCEPT !.values = values, !.raw_values = values]

\* FullyConnectedLayer::feed_back aborts
feed_back_panics(self, input, input_gradients) ==
    \/ self.num_neurons > Len(self.back_activated_values)
    \/ self.num_neurons > Len(self.bias_gradients)
    \/ /\ self.num_neurons > 0
       /\ \/ self.num_inputs > Len(input)
          \/ self.num_inputs > Len(input_gradients)
          \/ self.num_inputs * self.num_neurons > Len(self.weights)
          \/ self.num_inputs * self.num_neurons > Len(self.weight_gradients)

\* FullyConnectedLayer::feed_back, when it does not abort: the layer and the
\* upstream gradient buffer afterwards
feed_back(self, input, input_gradients) ==
    LET derivative(i) == At(self.back_activated_values, i)
        bias_gradients == [i \in 1..Len(self.bias_gradients) |->
                              IF i <= self.num_neurons
                              THEN RAdd(self.bias_gradients[i], derivative(i - 1))
                              ELSE self.bias_gradients[i]]
        weight_gradients == [w \in 1..Len(self.weight_gradients) |->
                                IF w <= self.num_inputs * self.num_neurons
                                THEN RAdd(self.weight_gradients[w],
                                          RMul(derivative((w - 1) \div self.num_inputs),
                                               At(input, (w - 1) % self.num_inputs)))
                                ELSE self.weight_gradients[w]]
        column(j) ==
            LET sum[i \in 0..self.num_neurons] ==
                    IF i = 0 THEN Zero
                    ELSE RAdd(sum[i - 1],
                              RMul(derivative(i - 1), At(self.weights, get_weight(self, j, i - 1))))
            IN  sum[self.num_neurons]
        gradients == [j \in 1..Len(input_gradients) |->
                         IF j <= self.num_inputs /\ self.num_neurons > 0
                         THEN column(j - 1)
                         ELSE Zero]
    IN  [ layer |-> [self EXCEPT !.bias_gradients = bias_gradients,
                                 !.weight_gradients = weight_gradients],
          gradients |-> gradients ]

---------------------------------------------------------------------------
(* impl LayerBase: the pairing operations.  forward_propagate gives the next
   layer afterwards and the result; back_propagate gives this layer and the
   previous layer afterwards and the result.  After Panic the process is gone
   and the layers are reported as they were before the call. *)

Cells(dimension) == dimension[1] * dimension[2] * dimension[3]

\* ConvolutionalLayer::forward_propagate
convolutional_forward_propagate(self, next_layer) ==
    CASE next_layer.kind = Convolutional ->
            LET checked == check_output_dimension(self.dimension, next_layer.dimension, self.zero_padding,
                                                  next_layer.num_kernels, next_layer.kernel_size,
                                                  next_layer.stride)
            IN  IF checked # Ok THEN [next |-> next_layer, result |-> checked]
                ELSE IF convolve_panics(next_layer, self.dimension, self.volume, self.zero_padding)
                THEN [next |-> next_layer, result |-> Panic]
                ELSE [next |-> convolve(next_layer, self.dimension, self.volume, self.zero_padding),
                      result |-> Ok]
      [] next_layer.kind = Pooling ->
            LET checked == check_output_dimension(self.dimension, next_layer.dimension, 0,
                                                  next_layer.dimension[3], next_layer.kernel_size,
                                                  next_layer.stride)
            IN  IF checked # Ok THEN [next |-> next_layer, result |-> checked]
                ELSE IF pooling_convolve_panics(next_layer, self.dimension, self.volume)
                THEN [next |-> next_layer, result |-> Panic]
                ELSE [next |-> pooling_convolve(next_layer, self.dimension, self.volume), result |-> Ok]
      [] OTHER ->
            IF Cells(self.dimension) # next_layer.num_inputs
            THEN [next |-> next_layer, result |-> DimensionMismatch]
            ELSE IF feed_forward_panics(next_layer, self.volume)
            THEN [next |-> next_layer, result |-> Panic]
            ELSE [next |-> feed_forward(next_layer, self.volume), result |-> Ok]

\* PoolingLayer::forward_propagate: the text of ConvolutionalLayer::forward_propagate
\* again, argument for argument, with a PoolingLayer as self
pooling_forward_propagate(self, next_layer) ==
    convolutional_forward_propagate(self, next_layer)

\* FullyConnectedLayer::forward_propagate
fully_connected_forward_propagate(self, next_layer) ==
    IF next_layer.kind = FullyConnected
    THEN IF next_layer.num_inputs # self.num_neurons
         THEN [next |-> next_layer, result |-> DimensionMismatch]
         ELSE IF feed_forward_panics(next_layer, self.values)
         THEN [next |-> next_layer, result |-> Panic]
         ELSE [next |-> feed_forward(next_layer, self.values), result |-> Ok]
    ELSE [next |-> next_layer, result |-> IncompatibleLayers]

\* the variant of Layer::forward_propagate that fills the next layer's values
\* with zeros before it looks at the dimensions
forward_propagate_cleared(self, next_layer) ==
    LET cleared == IF next_layer.kind = FullyConnected
                   THEN [next_layer EXCEPT !.values = Zeros(Len(next_layer.values))]
                   ELSE [next_layer EXCEPT !.volume = Zeros(Len(next_layer.volume))]
    IN  CASE self.kind = Convolutional -> convolutional_forward_propagate(self, cleared)
          [] self.kind = Pooling -> pooling_forward_propagate(self, cleared)
          [] OTHER -> fully_connected_forward_propagate(self, cleared)

\* Layer::forward_propagate
forward_propagate(self, next_layer) ==
    CASE self.kind = Convolutional -> convolutional_forward_propagate(self, next_layer)
      [] self.kind = Pooling -> pooling_forward_propagate(self, next_layer)
      [] OTHER -> fully_connected_forward_propagate(self, next_layer)

Unchanged(self, previous_layer, result) ==
    [self |-> self, previous |-> previous_layer, result |-> result]

\* ConvolutionalLayer::back_propagate
convolutional_back_propagate(self, previous_layer) ==
    IF previous_layer.kind \in {Convolutional, Pooling}
    THEN LET checked == check_output_dimension(previous_layer.dimension, self.dimension,
                                               previous_layer.zero_padding, self.num_kernels,
                                               self.kernel_size, self.stride)
         IN  IF checked # Ok THEN Unchanged(self, previous_layer, checked)
             ELSE IF convolve_back_panics(self, previous_layer.dimension, previous_layer.volume,
                                          previous_layer.volume_gradients, previous_layer.zero_padding)
             THEN Unchanged(self, previous_layer, Panic)
             ELSE Bind(convolve_back(self, previous_layer.dimension, previous_layer.volume,
                                     previous_layer.volume_gradients, previous_layer.zero_padding),
                       LAMBDA back :
                            [ self |-> back.layer,
                              previous |-> [previous_layer EXCEPT !.volume_gradients = back.gradients],
                              result |-> Ok ])
    ELSE Unchanged(self, previous_layer, Ok)

\* PoolingLayer::back_propagate
pooling_back_propagate(self, previous_layer) ==
    IF previous_layer.kind \in {Convolutional, Pooling}
    THEN LET checked == check_output_dimension(previous_layer.dimension, self.dimension, 0,
                                               self.dimension[3], self.kernel_size, self.stride)
         IN  IF checked # Ok THEN Unchanged(self, previous_layer, checked)
             ELSE IF pooling_convolve_back_panics(self, previous_layer.dimension, previous_layer.volume,
                                                  previous_layer.volume_gradients)
             THEN Unchanged(self, previous_layer, Panic)
             ELSE [ self |-> self,
                    previous |-> [previous_layer EXCEPT !.volume_gradients =
                                    pooling_convolve_back(self, previous_layer.dimension,
                                                          previous_layer.volume,
                                                          previous_layer.volume_gradients)],
                    result |-> Ok ]
    ELSE Unchanged(self, previous_layer, Ok)

\* FullyConnectedLayer::back_propagate
fully_connected_back_propagate(self, previous_layer) ==
    LET input == IF previous_layer.kind = FullyConnected
                 THEN previous_layer.values ELSE previous_layer.volume
        input_gradients == IF previous_layer.kind = FullyConnected
                           THEN previous_layer.value_gradients ELSE previous_layer.volume_gradients
        width == IF previous_layer.kind = FullyConnected
                 THEN previous_layer.num_neurons ELSE Cells(previous_layer.dimension)
    IN  IF width # self.num_inputs THEN Unchanged(self, previous_layer, DimensionMismatch)
        ELSE IF feed_back_panics(self, input, input_gradients)
        THEN Unchanged(self, previous_layer, Panic)
        ELSE LET back == feed_back(self, input, input_gradients)
             IN  [ self |-> back.layer,
                   previous |-> IF previous_layer.kind = FullyConnected
                                THEN [previous_layer EXCEPT !.value_gradients = back.gradients]
                                ELSE [previous_layer EXCEPT !.volume_gradients = back.gradients],
                   result |-> Ok ]

\* Layer::back_propagate
back_propagate(self, previous_layer) ==
    CASE self.kind = Convolutional -> convolutional_back_propagate(self, previous_layer)
      [] self.kind = Pooling -> pooling_back_propagate(self, previous_layer)
      [] OTHER -> fully_connected_back_propagate(self, previous_layer)

---------------------------------------------------------------------------
(* impl LearnableLayer and the dispatch of enum Layer *)

\* ConvolutionalLayer::activate
convolutional_activate(self, func) ==
    [self EXCEPT !.volume = [i \in 1..Len(self.volume) |-> activations_eval(func, self.raw_volume[i])]]

\* ConvolutionalLayer::back_activate: the activation itself, not its derivative,
\* multiplies the volume gradient
convolutional_back_activate(self, func) ==
    [self EXCEPT !.back_activated_volume =
        [i \in 1..Len(self.back_activated_volume) |->
            IF i <= Len(self.volume)
            THEN RMul(activations_eval(func, self.raw_volume[i]), self.volume_gradients[i])
            ELSE self.back_activated_volume[i]]]

\* ConvolutionalLayer::reset_gradients
convolutional_reset_gradients(self) ==
    [self EXCEPT !.bias_gradients = Zeros(Len(self.bias_gradients)),
                 !.kernel_gradients = Zeros(Len(self.kernel_gradients))]

\* the variant of ConvolutionalLayer::apply_gradients with no weight decay
convolutional_apply_gradients_undecayed(self, learning_rate, momentum, weight_decay) ==
    LET bias_vel(i) == RAdd(RMul(self.bias_velocity[i], momentum),
                            RMul(learning_rate, self.bias_gradients[i]))
        kernel_vel(i) == RAdd(RMul(self.kernel_velocity[i], momentum),
                              RMul(learning_rate, self.kernel_gradients[i]))
    IN  [self EXCEPT !.bias_velocity = [i \in 1..Len(self.biases) |-> bias_vel(i)],
                     !.biases = [i \in 1..Len(self.biases) |-> RSub(self.biases[i], bias_vel(i))],
                     !.kernel_velocity = [i \in 1..Len(self.kernel_gradients) |-> kernel_vel(i)],
                     !.kernel = [i \in 1..Len(self.kernel_gradients) |-> RSub(self.kernel[i], kernel_vel(i))]]

\* ConvolutionalLayer::apply_gradients
convolutional_apply_gradients(self, learning_rate, momentum, weight_decay) ==
    LET bias_vel(i) == RAdd(RMul(self.bias_velocity[i], momentum),
                            RMul(learning_rate, self.bias_gradients[i]))
        kernel_vel(i) == RAdd(RMul(self.kernel_velocity[i], momentum),
                              RMul(learning_rate,
                                   RAdd(self.kernel_gradients[i], RMul(weight_decay, self.kernel[i]))))
    IN  [self EXCEPT !.bias_velocity = [i \in 1..Len(self.biases) |-> bias_vel(i)],
                     !.biases = [i \in 1..Len(self.biases) |-> RSub(self.biases[i], bias_vel(i))],
                     !.kernel_velocity = [i \in 1..Len(self.kernel_gradients) |-> kernel_vel(i)],
                     !.kernel = [i \in 1..Len(self.kernel_gradients) |-> RSub(self.kernel[i], kernel_vel(i))]]

\* FullyConnectedLayer::activate
fully_connected_activate(self, func) ==
    [self EXCEPT !.values = [i \in 1..Len(self.values) |-> activations_eval(func, self.raw_values[i])]]

\* FullyConnectedLayer::back_activate
fully_connected_back_activate(self, func) ==
    [self EXCEPT !.back_activated_values =
        [i \in 1..Len(self.back_activated_values) |->
            IF i <= Len(self.values)
            THEN RMul(activations_eval_derivative(func, self.raw_values[i]), self.value_gradients[i])
            ELSE self.back_activated_values[i]]]

\* the variant of FullyConnectedLayer::reset_gradients that clears the velocities
\* as well
fully_connected_reset_gradients_and_velocity(self) ==
    [self EXCEPT !.bias_gradients = Zeros(Len(self.bias_gradients)),
                 !.weight_gradients = Zeros(Len(self.weight_gradients)),
                 !.bias_velocity = Zeros(Len(self.bias_velocity)),
                 !.weight_velocity = Zeros(Len(self.weight_velocity))]

\* FullyConnectedLayer::reset_gradients
fully_connected_reset_gradients(self) ==
    [self EXCEPT !.bias_gradients = Zeros(Len(self.bias_gradients)),
                 !.weight_gradients = Zeros(Len(self.weight_gradients))]

\* FullyConnectedLayer::apply_gradients
fully_connected_apply_gradients(self, learning_rate, momentum, weight_decay) ==
    LET bias_vel(i) == RAdd(RMul(self.bias_velocity[i], momentum),
                            RMul(learning_rate, self.bias_gradients[i]))
        weight_vel(i) == RAdd(RMul(self.weight_velocity[i], momentum),
                              RMul(learning_rate,
                                   RAdd(self.weight_gradients[i], RMul(weight_decay, self.weights[i]))))
        neurons == self.num_neurons
        weights == self.num_inputs * self.num_neurons
    IN  [self EXCEPT !.bias_velocity = [i \in 1..Len(self.bias_velocity) |->
                                           IF i <= neurons THEN bias_vel(i) ELSE self.bias_velocity[i]],
                     !.biases = [i \in 1..Len(self.biases) |->
                                    IF i <= neurons THEN RSub(self.biases[i], bias_vel(i)) ELSE self.biases[i]],
                     !.weight_velocity = [i \in 1..Len(self.weight_velocity) |->
                                             IF i <= weights THEN weight_vel(i) ELSE self.weight_velocity[i]],
                     !.weights = [i \in 1..Len(self.weights) |->
                                     IF i <= weights THEN RSub(self.weights[i], weight_vel(i))
                                     ELSE self.weights[i]]]

\* nn_error: the error functions.  HalfMeanSquaredError is carried in exact
\* arithmetic; BinaryCrossEntropy, which clamps at 1e-12 and takes logarithms,
\* is modelled in 32-bit floats further down.
HalfMeanSquaredError == "HalfMeanSquaredError"

\* nn_error::half_mean_squared_derivative
half_mean_squared_derivative(i, values, expected) ==
    RDiv(RSub(At(values, i), At(expected, i)), R(Len(values)))

\* nn_error::eval_derivative
nn_error_eval_derivative(function_type, i, values, expected) ==
    half_mean_squared_derivative(i, values, expected)

\* the variant of FullyConnectedLayer::calculate_output_gradients that compares
\* the lengths after the loop
calculate_output_gradients_late(self, error_function_type, expected) ==
    [ layer |-> [self EXCEPT !.value_gradients =
                    [i \in 1..Len(self.value_gradients) |->
                        IF i <= Len(expected) /\ i <= Len(self.values)
                        THEN nn_error_eval_derivative(error_function_type, i - 1, self.values, expected)
                        ELSE self.value_gradients[i]]],
      result |-> IF Len(self.values) # Len(expected) THEN InvalidInput ELSE Ok ]

\* FullyConnectedLayer::calculate_output_gradients: the layer and the result
calculate_output_gradients(self, error_function_type, expected) ==
    IF Len(self.values) # Len(expected) THEN [layer |-> self, result |-> InvalidInput]
    ELSE IF Len(expected) > Len(self.value_gradients) THEN [layer |-> self, result |-> Panic]
    ELSE [ layer |-> [self EXCEPT !.value_gradients =
                        [i \in 1..Len(self.value_gradients) |->
                            IF i <= Len(expected)
                            THEN nn_error_eval_derivative(error_function_type, i - 1, self.values, expected)
                            ELSE self.value_gradients[i]]],
           result |-> Ok ]

\* Layer::apply_gradients
apply_gradients(self, learning_rate, momentum, weight_decay) ==
    CASE self.kind = Convolutional -> convolutional_apply_gradients(self, learning_rate, momentum, weight_decay)
      [] self.kind = FullyConnected -> fully_connected_apply_gradients(self, learning_rate, momentum, weight_decay)
      [] OTHER -> self

\* Layer::reset_gradients
reset_gradients(self) ==
    CASE self.kind = Convolutional -> convolutional_reset_gradients(self)
      [] self.kind = FullyConnected -> fully_connected_reset_gradients(self)
      [] OTHER -> self

\* Layer::activate
activate(self, func) ==
    CASE self.kind = Convolutional -> convolutional_activate(self, func)
      [] self.kind = FullyConnected -> fully_connected_activate(self, func)
      [] OTHER -> self

\* Layer::backward_activate
backward_activate(self, func) ==
    CASE self.kind = Convolutional -> convolutional_back_activate(self, func)
      [] self.kind = FullyConnected -> fully_connected_back_activate(self, func)
      [] OTHER -> self

---------------------------------------------------------------------------
(* struct NeuralNetwork: layers is the sequence of (Layer, ActivationFunction)
   pairs.  The operations give the network afterwards and the result. *)

NeuralNetwork_new(error_function) == [layers |-> <<>>, error_function |-> error_function]

\* NeuralNetwork::register_layer
register_layer(self, activation_function, layer) ==
    [self EXCEPT !.layers = Append(@, [layer |-> layer, activation_function |-> activation_function])]

\* the network with layer number i (from 0) replaced
WithLayer(self, i, layer) == [self EXCEPT !.layers[i + 1].layer = layer]

\* NeuralNetwork::set_input
network_set_input(self, input) ==
    IF Len(self.layers) = 0 THEN [network |-> self, result |-> IncompatibleLayers]
    ELSE IF self.layers[1].layer.kind = Convolutional
    THEN LET set == set_volume(self.layers[1].layer, input)
         IN  [network |-> WithLayer(self, 0, set.layer), result |-> set.result]
    ELSE [network |-> self, result |-> IncompatibleLayers]

\* the variant of NeuralNetwork::forward_propagate that goes on with the later
\* pairings after one has failed, and returns the first error
network_forward_propagate_through(self) ==
    IF Len(self.layers) = 0 THEN [network |-> self, result |-> Panic]
    ELSE
    LET run[n \in 0..(Len(self.layers) - 1)] ==
            IF n = 0 THEN [network |-> self, result |-> Ok]
            ELSE LET i == n - 1
                     iteration(before) ==
                        LET propagated(step) ==
                                IF step.result # Ok
                                THEN [network |-> before.network,
                                      result |-> IF before.result # Ok THEN before.result
                                                 ELSE step.result]
                                ELSE [network |-> WithLayer(before.network, i + 1,
                                                            activate(step.next,
                                                                     At(self.layers, i + 1).activation_function)),
                                      result |-> before.result]
                        IN  Bind(forward_propagate(At(before.network.layers, i).layer,
                                                   At(before.network.layers, i + 1).layer),
                                 propagated)
                 IN  Bind(run[n - 1], iteration)
    IN  run[Len(self.layers) - 1]

\* NeuralNetwork::forward_propagate.  With no layer, len() - 1 underflows: an
\* abort with overflow checks, and without them split_at_mut(1) of an empty
\* vector aborts.
network_forward_propagate(self) ==
    IF Len(self.layers) = 0 THEN [network |-> self, result |-> Panic]
    ELSE
    LET run[n \in 0..(Len(self.layers) - 1)] ==
            IF n = 0 THEN [network |-> self, result |-> Ok]
            ELSE LET i == n - 1
                     activated(network, step) ==
                        IF step.result # Ok
                        THEN [network |-> WithLayer(network, i + 1, step.next), result |-> step.result]
                        ELSE [network |-> WithLayer(network, i + 1,
                                                    activate(step.next,
                                                             At(self.layers, i + 1).activation_function)),
                              result |-> Ok]
                     iteration(before) ==
                        IF before.result # Ok THEN before
                        ELSE LET propagated(step) == activated(before.network, step)
                             IN  Bind(forward_propagate(At(before.network.layers, i).layer,
                                                        At(before.network.layers, i + 1).layer),
                                      propagated)
                 IN  Bind(run[n - 1], iteration)
    IN  run[Len(self.layers) - 1]

\* NeuralNetwork::back_propagate.  With no layer, len() - 1 underflows: an abort
\* with overflow checks, an index out of bounds without them.
network_back_propagate(self, target_output) ==
    IF Len(self.layers) = 0 THEN [network |-> self, result |-> Panic]
    ELSE
    LET len == Len(self.layers)
        last == len - 1
    IN  IF At(self.layers, last).layer.kind # FullyConnected
        THEN [network |-> self, result |-> IncompatibleLayers]
        ELSE
        LET first(output) == [network |-> WithLayer(self, last, output.layer), result |-> output.result]
            run[n \in 0..last] ==
                IF n = 0
                THEN Bind(calculate_output_gradients(At(self.layers, last).layer, self.error_function,
                                                     target_output),
                          first)
                ELSE LET i == len - n
                         iteration(before) ==
                            IF before.result # Ok THEN before
                            ELSE LET propagated(step) ==
                                        IF step.result = Panic THEN [before EXCEPT !.result = Panic]
                                        ELSE [network |-> WithLayer(WithLayer(before.network, i, step.self),
                                                                    i - 1, step.previous),
                                              result |-> step.result]
                                     back(activated) ==
                                        Bind(back_propagate(activated, At(before.network.layers, i - 1).layer),
                                             propagated)
                                 IN  Bind(backward_activate(At(before.network.layers, i).layer,
                                                            At(self.layers, i).activation_function),
                                          back)
                     IN  Bind(run[n - 1], iteration)
        IN  run[last]

\* the variant of NeuralNetwork::start_batch that resets nothing
start_batch_skipped(self) == self

\* NeuralNetwork::start_batch
start_batch(self) ==
    [self EXCEPT !.layers = [i \in 1..Len(self.layers) |->
                                [self.layers[i] EXCEPT !.layer = reset_gradients(@)]]]

\* batch_size as u8
as_u8(n) == n % 256

\* the variant of NeuralNetwork::end_batch that does not scale the learning rate
end_batch_unscaled(self, sample_count, learning_rate, momentum, weight_decay) ==
    [self EXCEPT !.layers = [i \in 1..Len(self.layers) |->
                                IF i = 1 THEN self.layers[i]
                                ELSE [self.layers[i] EXCEPT !.layer =
                                        apply_gradients(@, learning_rate, momentum, weight_decay)]]]

\* NeuralNetwork::end_batch, for a sample_count that is not zero
end_batch(self, sample_count, learning_rate, momentum, weight_decay) ==
    LET new_learning_rate == RDiv(learning_rate, R(sample_count))
    IN  [self EXCEPT !.layers = [i \in 1..Len(self.layers) |->
                                    IF i = 1 THEN self.layers[i]
                                    ELSE [self.layers[i] EXCEPT !.layer =
                                            apply_gradients(@, new_learning_rate, momentum, weight_decay)]]]

\* the variant of the order of collect_gradients with the biases first
layer_gradients_biases_first(layer) ==
    CASE layer.kind = Convolutional -> layer.bias_gradients \o layer.kernel_gradients
      [] layer.kind = FullyConnected -> layer.bias_gradients \o layer.weight_gradients
      [] OTHER -> <<>>

\* the gradient accumulators of one layer, in the order of collect_gradients
layer_gradients(layer) ==
    CASE layer.kind = Convolutional -> layer.kernel_gradients \o layer.bias_gradients
      [] layer.kind = FullyConnected -> layer.weight_gradients \o layer.bias_gradients
      [] OTHER -> <<>>

\* NeuralNetwork::collect_gradients
collect_gradients(self) ==
    LET collect[n \in 0..Len(self.layers)] ==
            IF n = 0 THEN <<>> ELSE collect[n - 1] \o layer_gradients(self.layers[n].layer)
    IN  collect[Len(self.layers)]

\* NeuralNetwork::collect_gradients_mut followed by *gradients[i] = values[i] for
\* every i: the network afterwards.  values is at least as long as the
\* collected vector.
collect_gradients_mut(self, values) ==
    LET write[n \in 0..Len(self.layers)] ==
            IF n = 0 THEN [layers |-> <<>>, offset |-> 0]
            ELSE LET before == write[n - 1]
                     layer == self.layers[n].layer
                     slice(from, count) == [i \in 1..count |-> values[before.offset + from + i]]
                     written ==
                        CASE layer.kind = Convolutional ->
                                [layer EXCEPT !.kernel_gradients = slice(0, Len(layer.kernel_gradients)),
                                              !.bias_gradients = slice(Len(layer.kernel_gradients),
                                                                       Len(layer.bias_gradients))]
                          [] layer.kind = FullyConnected ->
                                [layer EXCEPT !.weight_gradients = slice(0, Len(layer.weight_gradients)),
                                              !.bias_gradients = slice(Len(layer.weight_gradients),
                                                                       Len(layer.bias_gradients))]
                          [] OTHER -> layer
                 IN  [layers |-> Append(before.layers, [self.layers[n] EXCEPT !.layer = written]),
                      offset |-> before.offset + Len(layer_gradients(layer))]
    IN  [self EXCEPT !.layers = write[Len(self.layers)].layers]

\* the references NeuralNetwork::collect_gradients_mut returns, in their order:
\* a reference is the layer (counted from 1), the buffer and the place in it
gradient_references(self) ==
    LET cells(n, field) ==
            [i \in 1..Len(self.layers[n].layer[field]) |-> [layer |-> n, field |-> field, index |-> i]]
        result[n \in 0..Len(self.layers)] ==
            IF n = 0 THEN <<>>
            ELSE CASE self.layers[n].layer.kind = Convolutional ->
                        result[n - 1] \o cells(n, "kernel_gradients") \o cells(n, "bias_gradients")
                   [] self.layers[n].layer.kind = FullyConnected ->
                        result[n - 1] \o cells(n, "weight_gradients") \o cells(n, "bias_gradients")
                   [] OTHER -> result[n - 1]
    IN  result[Len(self.layers)]

\* *gradient = gradients[i] for every reference of the vector, in turn; a
\* vector of values shorter than the vector of references ends in a panic
write_gradients(self, references, gradients) ==
    LET write[i \in 0..Len(references)] ==
            IF i = 0 THEN self
            ELSE Bind2(write[i - 1], references[i],
                       LAMBDA before, cell :
                           [before EXCEPT !.layers[cell.layer].layer[cell.field][cell.index] =
                                              gradients[i]])
    IN  IF Len(gradients) < Len(references) THEN [network |-> self, result |-> Panic]
        ELSE [network |-> write[Len(references)], result |-> Ok]

---------------------------------------------------------------------------
(* The geometry specification: one call of a utility function *)

GeometryPadding == 0..2
GeometryDepth == 0..2

GeometryCalls ==
    [ dimension : (0..MaxDim) \X (0..MaxDim) \X GeometryDepth,
      zero_padding : GeometryPadding,
      num_kernels : GeometryDepth,
      kernel_size : 0..(MaxDim + 2),
      stride : 0..MaxDim ]

\* the layer-pair variables while another specification runs
PairIdle ==
    /\ upstream = <<>>
    /\ downstream = <<>>
    /\ outcome = <<>>
    /\ overflow_checks = FALSE

\* the network variables while another specification runs
NetworkIdle ==
    /\ neural_network = <<>>
    /\ training = <<>>

\* the trainer variables while another specification runs
TrainerIdle ==
    /\ instances = <<>>
    /\ job = <<>>
    /\ coordinator = <<>>
    /\ workers = <<>>
    /\ channel = <<>>

\* the calls of get_index under study: the dimension of a volume, every
\* position of which is looked up
IndexCalls == [ dimension : (0..MaxDim) \X (0..MaxDim) \X GeometryDepth ]

GeometryInit ==
    /\ call \in GeometryCalls \cup IndexCalls
    /\ answer = Pending
    /\ verdict = None
    /\ offsets = <<>>
    /\ PairIdle
    /\ NetworkIdle
    /\ TrainerIdle

CallGetOutputDimension ==
    /\ call \in GeometryCalls
    /\ answer = Pending
    /\ answer' = get_output_dimension(call.dimension, call.zero_padding, call.num_kernels,
                                      call.kernel_size, call.stride)
    /\ UNCHANGED <<call, verdict, offsets, pairVars, networkVars, trainerVars>>

\* expected dimensions to try against a returned dimension: the dimension
\* itself and the ones that differ from it by one in one component
ExpectedDimensions(returned) ==
    IF returned = None
    THEN {<<0, 0, 0>>, <<1, 1, 1>>, call.dimension}
    ELSE {returned[1]}
         \cup {[returned[1] EXCEPT ![i] = @ + 1] : i \in 1..3}
         \cup {[returned[1] EXCEPT ![i] = @ - 1] : i \in 1..3}

\* check_output_dimension with the arguments of the call and an expected dimension
CallCheckOutputDimension ==
    /\ call \in GeometryCalls
    /\ answer # Pending
    /\ verdict = None
    /\ \E expected_dimension \in ExpectedDimensions(answer) :
          verdict' = Some([ expected_dimension |-> expected_dimension,
                            result |-> check_output_dimension(call.dimension, expected_dimension,
                                                              call.zero_padding, call.num_kernels,
                                                              call.kernel_size, call.stride) ])
    /\ UNCHANGED <<call, answer, offsets, pairVars, networkVars, trainerVars>>

\* the n-th position (n from 0) of a volume, x running fastest and z slowest
ScanPosition(dimension, n) ==
    <<n % dimension[1], (n \div dimension[1]) % dimension[2], n \div (dimension[1] * dimension[2])>>

\* get_index for the next position of the volume
CallGetIndex ==
    /\ call \in IndexCalls
    /\ Len(offsets) < Cells(call.dimension)
    /\ offsets' = Append(offsets, get_index(ScanPosition(call.dimension, Len(offsets)), call.dimension))
    /\ UNCHANGED <<call, answer, verdict, pairVars, networkVars, trainerVars>>

GeometryNext ==
    \/ CallGetOutputDimension
    \/ CallCheckOutputDimension
    \/ CallGetIndex

GeometrySpec == GeometryInit /\ [][GeometryNext]_vars

---------------------------------------------------------------------------
(* nn_error in 32-bit floats.  A finite f32 is the pair <<m, e>> of the value
   m * 2^e, with 2^23 <= |m| < 2^24, or <<0, 0>>; all values of this section
   are far from the subnormal range.  What a logarithm, a product or a quotient
   returns is carried by its class alone: finite, NaN, or an infinity. *)

F32Zero == <<0, 0>>
F32One == <<2 ^ 23, -23>>

\* the literal 1e-12 as an f32: 0x2B8CBCCC
F32Tiny == <<9223372, -63>>

F32Finite == "finite"
F32NaN == "NaN"
F32Infinity == "inf"
F32NegInfinity == "-inf"

\* the number of binary digits of n, 0 <= n < 2^31
BitLength(n) ==
    CHOOSE k \in 0..31 : IF k = 0 THEN n = 0 ELSE n >= 2 ^ (k - 1) /\ (k = 31 \/ n < 2 ^ k)

\* a < b for two finite f32
f32_lt(a, b) ==
    CASE a[1] = 0 -> b[1] > 0
      [] b[1] = 0 -> a[1] < 0
      [] a[1] < 0 /\ b[1] > 0 -> TRUE
      [] a[1] > 0 /\ b[1] < 0 -> FALSE
      [] a[1] > 0 /\ b[1] > 0 -> a[2] < b[2] \/ (a[2] = b[2] /\ a[1] < b[1])
      [] OTHER -> a[2] > b[2] \/ (a[2] = b[2] /\ a[1] < b[1])

\* the f32 nearest to (n + s) * 2^e, ties to even, for an integer 0 <= n < 2^31
\* and a sticky part 0 <= s < 1 that is not zero when sticky holds
f32_round(n, sticky, e) ==
    IF n = 0 THEN F32Zero
    ELSE Bind(BitLength(n), LAMBDA bits :
            IF bits <= 24 THEN <<n * 2 ^ (24 - bits), e - (24 - bits)>>
            ELSE LET k == bits - 24
                     kept == n \div 2 ^ k
                     rest == n % 2 ^ k
                     half == 2 ^ (k - 1)
                     up == rest > half \/ (rest = half /\ (sticky \/ kept % 2 = 1))
                 IN  IF up /\ kept + 1 = 2 ^ 24 THEN <<2 ^ 23, e + k + 1>>
                     ELSE IF up THEN <<kept + 1, e + k>>
                     ELSE <<kept, e + k>>)

\* a - b in f32 for finite a >= b >= 0: the exact difference in units of
\* 2^(e - 7), e the exponent of a, the digits of b below the unit kept as a
\* sticky part, and then rounded
f32_sub(a, b) ==
    IF b[1] = 0 THEN a
    ELSE LET d == a[2] - b[2]
             drop == IF d - 7 > 24 THEN 24 ELSE d - 7
         IN  IF d <= 7 THEN f32_round(a[1] * 128 - b[1] * 2 ^ (7 - d), FALSE, a[2] - 7)
             ELSE IF b[1] % 2 ^ drop = 0
             THEN f32_round(a[1] * 128 - b[1] \div 2 ^ drop, FALSE, a[2] - 7)
             ELSE f32_round(a[1] * 128 - b[1] \div 2 ^ drop - 1, TRUE, a[2] - 7)

\* f32::clamp for min <= max and a value that is no NaN
f32_clamp(self, min, max) ==
    IF f32_lt(self, min) THEN min
    ELSE IF f32_lt(max, self) THEN max
    ELSE self

\* the class of f32::ln
f32_ln(self) ==
    CASE self[1] < 0 -> F32NaN
      [] self[1] = 0 -> F32NegInfinity
      [] OTHER -> F32Finite

\* the class of -x
f32_neg(class) ==
    CASE class = F32Infinity -> F32NegInfinity
      [] class = F32NegInfinity -> F32Infinity
      [] OTHER -> class

\* the class of a * x for a finite f32 a and an x of the class given; the
\* logarithms of this section are below 2^7 in size, so that no product of
\* finite factors leaves the range
f32_mul(a, class) ==
    CASE class = F32NaN -> F32NaN
      [] class = F32Finite -> F32Finite
      [] a[1] = 0 -> F32NaN
      [] a[1] > 0 -> class
      [] OTHER -> f32_neg(class)

\* the class of a / b for finite f32 a and b; b is 0.0 and not -0.0 where it is
\* zero, and the quotients of this section are below 2^64 in size
f32_div(a, b) ==
    CASE b[1] # 0 -> F32Finite
      [] a[1] = 0 -> F32NaN
      [] a[1] > 0 -> F32Infinity
      [] OTHER -> F32NegInfinity

\* the class of x + y
f32_add(x, y) ==
    CASE x = F32NaN \/ y = F32NaN -> F32NaN
      [] x = F32Finite -> y
      [] y = F32Finite -> x
      [] x = y -> x
      [] OTHER -> F32NaN

\* nn_error::binary_cross_entropy, for values.len() > 0: the class of the result
binary_cross_entropy(values, expected) ==
    LET term(i) ==
            Bind(f32_clamp(At(values, i), F32Tiny, f32_sub(F32One, F32Tiny)),
                 LAMBDA clamped_value :
                    f32_add(f32_mul(At(expected, i), f32_ln(clamped_value)),
                            f32_mul(f32_sub(F32One, At(expected, i)),
                                    f32_ln(f32_sub(F32One, clamped_value)))))
        result[n \in 0..Len(values)] ==
            IF n = 0 THEN F32Finite ELSE f32_add(result[n - 1], term(n - 1))
    IN  f32_neg(result[Len(values)])

\* nn_error::binary_cross_entropy_derivative, for values.len() > 0: the class
\* of the result
binary_cross_entropy_derivative(i, values, expected) ==
    Bind(f32_clamp(At(values, i), F32Tiny, f32_sub(F32One, F32Tiny)),
         LAMBDA clamped_value :
            f32_neg(f32_add(f32_div(At(expected, i), clamped_value),
                            f32_neg(f32_div(f32_sub(F32One, At(expected, i)),
                                            f32_sub(F32One, clamped_value))))))

---------------------------------------------------------------------------
(* The error-function specification: one call of nn_error::eval or of
   nn_error::eval_derivative with BinaryCrossEntropy, on the output values of a
   network and the expected values 0 or 1 *)

\* output neurons
MaxOutputs == 2

\* output values: -1, 0, 1e-13, 1e-12, 1/2, the f32 below 1, 1, the f32 above
\* 1, 2 and 2^100
StudyFloats ==
    { <<-(2 ^ 23), -23>>, F32Zero, <<14757395, -67>>, F32Tiny, <<2 ^ 23, -24>>,
      <<2 ^ 24 - 1, -24>>, F32One, <<2 ^ 23 + 1, -23>>, <<2 ^ 23, -22>>, <<2 ^ 23, 77>> }

ErrorCalls ==
    UNION { [ values : [1..n -> StudyFloats], expected : [1..n -> {F32Zero, F32One}], i : 0..(n - 1) ]
            : n \in 1..MaxOutputs }

ErrorInit ==
    /\ call \in ErrorCalls
    /\ answer = Pending
    /\ verdict = None
    /\ offsets = <<>>
    /\ PairIdle
    /\ NetworkIdle
    /\ TrainerIdle

\* nn_error::eval(ErrorFunction::BinaryCrossEntropy, &values, &expected)
CallEval ==
    /\ answer = Pending
    /\ answer' = Some([function |-> "eval",
                       class |-> binary_cross_entropy(call.values, call.expected)])
    /\ UNCHANGED <<call, verdict, offsets, pairVars, networkVars, trainerVars>>

\* nn_error::eval_derivative(ErrorFunction::BinaryCrossEntropy, i, &values, &expected)
CallEvalDerivative ==
    /\ answer = Pending
    /\ answer' = Some([function |-> "eval_derivative",
                       class |-> binary_cross_entropy_derivative(call.i, call.values,
                                                                 call.expected)])
    /\ UNCHANGED <<call, verdict, offsets, pairVars, networkVars, trainerVars>>

ErrorNext == CallEval \/ CallEvalDerivative

ErrorSpec == ErrorInit /\ [][ErrorNext]_vars

---------------------------------------------------------------------------
(* The layer-pair specification: two adjacent layers, upstream.forward_propagate
   (downstream) and downstream.back_propagate(upstream), as tests.rs drives
   them.  The buffers the operations read are drawn from small sets: any values
   can have been left there by set_volume, set_kernel, set_biases and by
   earlier passes. *)

\* the geometry variables while another specification runs
GeometryIdle ==
    /\ call = <<>>
    /\ answer = Pending
    /\ verdict = None
    /\ offsets = <<>>

NoOutcome == [forward |-> Pending, backward |-> Pending]

\* tests.rs, convolutional_layer_forward_propagate: the two layers before the
\* forward pass
FixtureVolume ==
    <<R(1), R(10), R(2), R(11), R(3), R(12), R(4), R(13), R(5), R(14), R(6), R(15),
      R(7), R(16), R(8), R(17), R(9), R(18)>>

FixtureKernel ==
    <<R(1), Rat(1, 2), Rat(1, 2), R(1), Rat(1, 2), R(1), R(1), Rat(1, 2)>>

FixtureBiases == <<Rat(1, 2)>>

FixtureLayer1 ==
    set_volume(ConvolutionalLayer_new(1, 0, 0, <<3, 3, 2>>, 0), FixtureVolume).layer

FixtureLayer2 ==
    set_biases(set_kernel(ConvolutionalLayer_new(1, 1, 2, <<4, 4, 1>>, 2), FixtureKernel).layer,
               FixtureBiases).layer

\* the expected volume of the test's assert_eq!
FixtureExpected ==
    <<Rat(13, 2), Rat(37, 2), Rat(25, 2), Rat(1, 2),
      Rat(43, 2), Rat(91, 2), Rat(49, 2), Rat(1, 2),
      Rat(31, 2), Rat(55, 2), Rat(25, 2), Rat(1, 2),
      Rat(1, 2), Rat(1, 2), Rat(1, 2), Rat(1, 2)>>

FixtureInit ==
    /\ upstream = FixtureLayer1
    /\ downstream = FixtureLayer2
    /\ overflow_checks \in BOOLEAN

\* values an upstream cell holds
CellValues == {R(-1), R(2)}

\* gradient buffers of the downstream layer: powers of two (distinct among any
\* eight neighbours, so that a sum tells which cells contributed), and a buffer
\* with zero and negative entries
GradientPatterns(n) ==
    { [j \in 1..n |-> R(2 ^ ((j - 1) % 8))], [j \in 1..n |-> R(2 - j)] }

PairShapes(max_cells) ==
    { d \in (1..MaxDim) \X (1..MaxDim) \X (1..2) : d[1] * d[2] * d[3] <= max_cells }

\* dimensions a downstream layer may declare: the inferred one, the inferred
\* one with the other depth, and one that is wrong
DeclaredDimensions(inferred, depth) ==
    (IF inferred = None THEN {}
     ELSE {inferred[1], <<inferred[1][1], inferred[1][2], 3 - depth>>})
    \cup {<<1, 1, depth>>}

PoolingInit ==
    \E dimension \in PairShapes(MaxPoolCells), pooling_type \in {PoolingMax, PoolingAverage},
       kernel_size \in 1..2, stride \in 1..2 :
        \E declared \in DeclaredDimensions(
                            get_output_dimension(dimension, 0, dimension[3], kernel_size, stride),
                            dimension[3]) :
            /\ \E volume \in [1..Cells(dimension) -> CellValues] :
                  upstream = set_volume(make_input_layer(0, dimension), volume).layer
            /\ \E gradients \in GradientPatterns(Cells(declared)) :
                  downstream = [PoolingLayer_new(pooling_type, 0, stride, kernel_size, declared)
                                    EXCEPT !.volume_gradients = gradients]
            /\ overflow_checks = FALSE

\* kernel weights and biases of the downstream convolutional layer
KernelPattern(n) == [i \in 1..n |-> R(i)]
BiasPattern(n) == [i \in 1..n |-> Rat(1, 2)]

ConvolutionalInit ==
    \E dimension \in PairShapes(MaxConvCells), zero_padding \in 0..2, kernel_size \in 1..2,
       stride \in 1..2, input_depth \in 1..2 :
        \E declared \in DeclaredDimensions(
                            get_output_dimension(dimension, zero_padding, dimension[3], kernel_size, stride),
                            dimension[3]) :
            /\ \E volume \in [1..Cells(dimension) -> CellValues] :
                  upstream = set_volume(make_input_layer(zero_padding, dimension), volume).layer
            /\ \E gradients \in GradientPatterns(Cells(declared)) :
                  LET layer == ConvolutionalLayer_new(0, stride, kernel_size, declared, input_depth)
                  IN  downstream = [layer EXCEPT !.kernel = KernelPattern(Len(layer.kernel)),
                                                 !.biases = BiasPattern(Len(layer.biases)),
                                                 !.back_activated_volume = gradients]
            \* the two builds differ only where query_zero_padded subtracts below zero
            /\ overflow_checks \in (IF zero_padding > dimension[1] \/ zero_padding > dimension[2]
                                    THEN BOOLEAN ELSE {FALSE})

\* an upstream layer of each kind that holds the values given, with gradients
\* of an earlier pass in its buffer
UpstreamLayers(values) ==
    LET n == Len(values)
        earlier == [i \in 1..n |-> R(2 + i)]
    IN  { [FullyConnectedLayer_new(1, n) EXCEPT !.values = values, !.value_gradients = earlier],
          [set_volume(make_input_layer(0, <<1, 1, n>>), values).layer
                EXCEPT !.volume_gradients = earlier],
          [PoolingLayer_new(PoolingMax, 0, 1, 1, <<1, 1, n>>)
                EXCEPT !.volume = values, !.volume_gradients = earlier] }

\* pairs with a fully connected layer on one side or on both: the downstream
\* layer expects as many inputs as the upstream layer has cells, or one more or
\* less; behind a fully connected layer there may also be a convolutional
\* layer
FullyConnectedInit ==
    \E width \in 1..2, num_inputs \in 1..2, num_neurons \in 1..2 :
        /\ \E values \in [1..width -> CellValues] : upstream \in UpstreamLayers(values)
        /\ \/ \E gradients \in GradientPatterns(num_neurons) :
                  LET layer == FullyConnectedLayer_new(num_inputs, num_neurons)
                  IN  downstream = [layer EXCEPT !.weights = KernelPattern(Len(layer.weights)),
                                                 !.biases = BiasPattern(Len(layer.biases)),
                                                 !.values = gradients,
                                                 !.back_activated_values = gradients]
           \/ /\ upstream.kind = FullyConnected
              /\ \E gradients \in GradientPatterns(num_neurons) :
                    LET layer == ConvolutionalLayer_new(0, 1, 1, <<1, 1, num_neurons>>, width)
                    IN  downstream = [layer EXCEPT !.kernel = KernelPattern(Len(layer.kernel)),
                                                   !.biases = BiasPattern(Len(layer.biases)),
                                                   !.volume = gradients,
                                                   !.back_activated_volume = gradients]
        /\ overflow_checks = FALSE

PairInit ==
    /\ GeometryIdle
    /\ NetworkIdle
    /\ TrainerIdle
    /\ outcome = NoOutcome
    /\ \/ FixtureInit
       \/ PoolingInit
       \/ ConvolutionalInit
       \/ FullyConnectedInit

\* upstream.forward_propagate(&mut downstream)
ForwardPropagate ==
    /\ outcome = NoOutcome
    /\ LET forward == forward_propagate(upstream, downstream)
       IN  /\ downstream' = forward.next
           /\ outcome' = [outcome EXCEPT !.forward = forward.result]
    /\ UNCHANGED <<upstream, overflow_checks, geometryVars, networkVars, trainerVars>>

\* downstream.back_propagate(&mut upstream); a process that has aborted calls nothing
BackPropagate ==
    /\ outcome.backward = Pending
    /\ outcome.forward # Panic
    /\ LET backward == back_propagate(downstream, upstream)
       IN  /\ downstream' = backward.self
           /\ upstream' = backward.previous
           /\ outcome' = [outcome EXCEPT !.backward = backward.result]
    /\ UNCHANGED <<overflow_checks, geometryVars, networkVars, trainerVars>>

PairNext == ForwardPropagate \/ BackPropagate

PairSpec == PairInit /\ [][PairNext]_vars

---------------------------------------------------------------------------
(* The network specification: one NeuralNetwork and a caller that runs
   training steps on it, call by call: start_batch, set_input,
   forward_propagate, back_propagate, then collect_gradients, and again, with a
   sample of its choice each time; from the second sample on it may leave
   start_batch out, and the sample then adds to the batch.  The log holds the
   steps that began with start_batch.  At the end of a batch it may store a
   vector of its own into the accumulators.  After its last sample the caller calls
   end_batch and start_batch as it likes, which keeps the numbers of the
   model within 32 bits.  The caller stops at the first call that does not
   return Ok.  Every step after the first finds in the buffers what the steps
   before it left there. *)

\* training steps one caller runs
MaxRuns == 3

\* the parameters the layers are given: kernels and biases through set_kernel
\* and set_biases, weights of both signs for the fully connected layers
WeightPattern(n) == [i \in 1..n |-> R(2 - i)]

with_parameters(layer) ==
    CASE layer.kind = Convolutional /\ layer.kernel_size > 0 ->
            set_biases(set_kernel(layer, KernelPattern(Len(layer.kernel))).layer,
                       BiasPattern(Len(layer.biases))).layer
      [] layer.kind = FullyConnected ->
            [layer EXCEPT !.weights = WeightPattern(Len(layer.weights)),
                          !.biases = BiasPattern(Len(layer.biases))]
      [] OTHER -> layer

\* a padded input, a strided convolution, a max pooling and one neuron
ConvPoolNetwork ==
    LET n0 == NeuralNetwork_new(HalfMeanSquaredError)
        n1 == register_layer(n0, NoActivation, make_input_layer(1, <<2, 2, 1>>))
        n2 == register_layer(n1, ReLU,
                             with_parameters(ConvolutionalLayer_new(0, 2, 2, <<2, 2, 1>>, 1)))
        n3 == register_layer(n2, NoActivation, PoolingLayer_new(PoolingMax, 0, 1, 2, <<1, 1, 1>>))
    IN  register_layer(n3, LeakyReLU(Rat(1, 10)), with_parameters(FullyConnectedLayer_new(1, 1)))

\* an average pooling layer declared deeper than its input, and two fully
\* connected layers
DeepPoolNetwork ==
    LET n0 == NeuralNetwork_new(HalfMeanSquaredError)
        n1 == register_layer(n0, NoActivation, make_input_layer(0, <<2, 1, 1>>))
        n2 == register_layer(n1, NoActivation, PoolingLayer_new(PoolingAverage, 0, 1, 1, <<2, 1, 2>>))
        n3 == register_layer(n2, ReLU, with_parameters(FullyConnectedLayer_new(4, 2)))
    IN  register_layer(n3, NoActivation, with_parameters(FullyConnectedLayer_new(2, 1)))

\* two fully connected layers on a 1x1x2 input
DenseNetwork ==
    LET n0 == NeuralNetwork_new(HalfMeanSquaredError)
        n1 == register_layer(n0, NoActivation, make_input_layer(0, <<1, 1, 2>>))
        n2 == register_layer(n1, LeakyReLU(Rat(1, 10)), with_parameters(FullyConnectedLayer_new(2, 2)))
    IN  register_layer(n2, NoActivation, with_parameters(FullyConnectedLayer_new(2, 1)))

\* a network that ends with a pooling layer
PoolingLastNetwork ==
    LET n0 == NeuralNetwork_new(HalfMeanSquaredError)
        n1 == register_layer(n0, NoActivation, make_input_layer(0, <<2, 2, 1>>))
    IN  register_layer(n1, NoActivation, PoolingLayer_new(PoolingMax, 0, 1, 2, <<1, 1, 1>>))

\* an input with no padding, one kernel that covers it, and one neuron
ConvDenseNetwork ==
    LET n0 == NeuralNetwork_new(HalfMeanSquaredError)
        n1 == register_layer(n0, NoActivation, make_input_layer(0, <<2, 2, 1>>))
        n2 == register_layer(n1, ReLU,
                             with_parameters(ConvolutionalLayer_new(0, 1, 2, <<1, 1, 1>>, 1)))
    IN  register_layer(n2, NoActivation, with_parameters(FullyConnectedLayer_new(1, 1)))

\* three fully connected layers, the second of which expects three inputs
\* where the first has two neurons
MismatchedNetwork ==
    LET n0 == NeuralNetwork_new(HalfMeanSquaredError)
        n1 == register_layer(n0, NoActivation, make_input_layer(0, <<1, 1, 2>>))
        n2 == register_layer(n1, ReLU, with_parameters(FullyConnectedLayer_new(2, 2)))
        n3 == register_layer(n2, ReLU, with_parameters(FullyConnectedLayer_new(3, 1)))
    IN  register_layer(n3, NoActivation, with_parameters(FullyConnectedLayer_new(1, 1)))

StudyNetworks ==
    {ConvPoolNetwork, DeepPoolNetwork, DenseNetwork, PoolingLastNetwork, ConvDenseNetwork,
     MismatchedNetwork}

\* input vectors for a network: three of the length of its input layer and one
\* that is one element too long
StudyInputs(network) ==
    LET n == Len(network.layers[1].layer.volume)
    IN  { [i \in 1..n |-> R(2)],
          [i \in 1..n |-> IF i % 2 = 1 THEN R(-1) ELSE R(2)],
          [i \in 1..n |-> R(i - 2)],
          [i \in 1..(n + 1) |-> One] }

\* calls of end_batch one caller makes
MaxEndBatches == 2

\* the arguments of end_batch
StudySampleCounts == {2}
StudyLearningRate == Rat(1, 2)
StudyMomentum == Rat(1, 2)
StudyWeightDecay == Rat(1, 4)

\* the vectors stored through collect_gradients_mut: n values that differ from
\* each other and from zero
StudyGradients(n) == { [i \in 1..n |-> R(i)] }

\* expected outputs: two for one output neuron and one that is too long
StudyTargets == {<<Zero>>, <<One>>, <<Zero, One>>}

NetworkInit ==
    /\ GeometryIdle
    /\ PairIdle
    /\ TrainerIdle
    /\ neural_network \in StudyNetworks
    /\ training = [next |-> "start_batch", result |-> Ok, input |-> <<>>, target_output |-> <<>>,
                   log |-> <<>>, batch |-> <<>>, runs |-> 0, ended |-> 0, applied |-> None,
                   written |-> None]

\* neural_network.start_batch()
StartBatch ==
    /\ training.next = "start_batch"
    /\ training.result = Ok
    /\ training.runs < MaxRuns
    /\ neural_network' = start_batch(neural_network)
    /\ training' = [training EXCEPT !.next = "set_input", !.batch = <<>>, !.written = None]
    /\ UNCHANGED <<geometryVars, pairVars, trainerVars>>

\* neural_network.set_input(&input)
SetInput ==
    /\ \/ training.next = "set_input"
       \/ training.next = "start_batch" /\ training.batch # <<>> /\ training.runs < MaxRuns
    /\ training.result = Ok
    /\ training.ended = 0
    /\ training.next = "start_batch" => training.written = None
    /\ \E input \in StudyInputs(neural_network) :
          \E set \in {network_set_input(neural_network, input)} :
              /\ neural_network' = set.network
              /\ training' = [training EXCEPT !.next = "forward_propagate",
                                              !.result = set.result,
                                              !.input = input]
    /\ UNCHANGED <<geometryVars, pairVars, trainerVars>>

\* neural_network.forward_propagate()
NetworkForwardPropagate ==
    /\ training.next = "forward_propagate"
    /\ training.result = Ok
    /\ \E forward \in {network_forward_propagate(neural_network)} :
           /\ neural_network' = forward.network
           /\ training' = [training EXCEPT !.next = "back_propagate", !.result = forward.result]
    /\ UNCHANGED <<geometryVars, pairVars, trainerVars>>

\* neural_network.back_propagate(&target_output), and on Ok
\* neural_network.collect_gradients() into the log
NetworkBackPropagate ==
    /\ training.next = "back_propagate"
    /\ training.result = Ok
    /\ \E target_output \in StudyTargets :
          \E backward \in {network_back_propagate(neural_network, target_output)} :
              /\ neural_network' = backward.network
              /\ training' =
                    [training EXCEPT
                        !.next = "start_batch",
                        !.result = backward.result,
                        !.target_output = target_output,
                        !.log = IF backward.result = Ok /\ training.batch = <<>>
                                THEN Append(@, [input |-> training.input,
                                                target_output |-> target_output,
                                                gradients |-> collect_gradients(backward.network)])
                                ELSE @,
                        !.batch = IF backward.result = Ok
                                  THEN Append(@, [input |-> training.input,
                                                  target_output |-> target_output])
                                  ELSE @,
                        !.runs = IF backward.result = Ok THEN @ + 1 ELSE @]
    /\ UNCHANGED <<geometryVars, pairVars, trainerVars>>

\* neural_network.end_batch(sample_count, learning_rate, momentum, weight_decay)
\* after at least one sample
NetworkEndBatch ==
    /\ training.next = "start_batch"
    /\ training.result = Ok
    /\ training.batch # <<>>
    /\ training.ended < MaxEndBatches
    /\ \E sample_count \in StudySampleCounts :
          /\ neural_network' = end_batch(neural_network, sample_count, StudyLearningRate,
                                         StudyMomentum, StudyWeightDecay)
          /\ training' = [training EXCEPT
                            !.ended = @ + 1,
                            !.applied = Some([sample_count |-> sample_count,
                                              learning_rate |-> StudyLearningRate,
                                              momentum |-> StudyMomentum,
                                              weight_decay |-> StudyWeightDecay])]
    /\ UNCHANGED <<geometryVars, pairVars, trainerVars>>

\* the caller stores a vector of its own into the accumulators, through the
\* references of collect_gradients_mut, as the parallel trainer does before
\* end_batch
WriteGradients ==
    /\ training.next = "start_batch"
    /\ training.result = Ok
    /\ training.batch # <<>>
    /\ training.ended = 0
    /\ training.written = None
    /\ \E references \in {gradient_references(neural_network)} :
          \E gradients \in StudyGradients(Len(references)) :
              \E written \in {write_gradients(neural_network, references, gradients)} :
                  /\ neural_network' = written.network
                  /\ training' = [training EXCEPT !.result = written.result,
                                                  !.written = Some(gradients)]
    /\ UNCHANGED <<geometryVars, pairVars, trainerVars>>

NetworkNext ==
    \/ StartBatch
    \/ SetInput
    \/ NetworkForwardPropagate
    \/ NetworkBackPropagate
    \/ NetworkEndBatch
    \/ WriteGradients

NetworkSpec == NetworkInit /\ [][NetworkNext]_vars

---------------------------------------------------------------------------
(* The cat_dog_classification trainers.  The statistics they print (error,
   correct, incorrect) are left out; get_error and get_output are carried as
   far as their results decide whether unwrap aborts. *)

NUM_THREADS == 4

\* image.data[i] as f32 / 255.0 into a zeroed buffer of the network's input
\* length (128 * 128 * 3 in the trainers); the image fits the buffer
input_data(image, length) ==
    [i \in 1..length |-> IF i <= Len(image.data) THEN Rat(image.data[i], 255) ELSE Zero]

\* vec![if image.classification == "cat" { 0.0 } else { 1.0 }]
expected_vec(image) == <<IF image.classification = "cat" THEN Zero ELSE One>>

\* Result::unwrap: an Err aborts the thread
unwrap(returned) == IF returned.result = Ok THEN returned ELSE [returned EXCEPT !.result = Panic]

\* NeuralNetwork::get_error and NeuralNetwork::get_output()[0] return a value
get_error_and_output_succeed(self, target_output) ==
    LET last == self.layers[Len(self.layers)].layer
    IN  /\ last.kind = FullyConnected
        /\ Len(last.values) = Len(target_output)
        /\ Len(last.values) > 0

\* the body of the loop over the images, the same text in both trainers:
\* set_input, forward_propagate, get_error, get_output, back_propagate, each
\* unwrapped.  The network afterwards and Ok or Panic.
train_image(network, image) ==
    IF Len(network.layers) = 0 THEN [network |-> network, result |-> Panic]
    ELSE CHOOSE trained \in UNION { UNION {
            IF propagated.result # Ok THEN {[propagated EXCEPT !.result = Panic]}
            ELSE IF ~get_error_and_output_succeed(propagated.network, expected_vec(image))
            THEN {[propagated EXCEPT !.result = Panic]}
            ELSE { unwrap(back) :
                   back \in {network_back_propagate(propagated.network, expected_vec(image))} } :
            propagated \in IF set.result # Ok THEN {[set EXCEPT !.result = Panic]}
                           ELSE {network_forward_propagate(set.network)} } :
            set \in {network_set_input(network,
                                       input_data(image, Len(network.layers[1].layer.volume)))} } : TRUE

\* (len + size - 1) / size
DivCeil(len, size) == (len + size - 1) \div size

\* slice.chunks(size): chunk number k (from 0) of a sequence
Chunk(slice, size, k) ==
    SubSeq(slice, k * size + 1, IF (k + 1) * size < Len(slice) THEN (k + 1) * size ELSE Len(slice))

\* images.chunks(batch_size): the batch with index batch_idx, as image numbers
Batch(images, batch_size, batch_idx) ==
    Chunk([i \in 1..Len(images) |-> i], batch_size, batch_idx)

\* trainer.rs: one batch of the serial trainer up to end_batch, on a network:
\* start_batch, then the loop over the images.  batch lists image numbers.
serial_batch(network, images, batch) ==
    LET image(before, n) ==
            IF before.result # Ok THEN before ELSE train_image(before.network, images[batch[n]])
        run[n \in 0..Len(batch)] ==
            IF n = 0 THEN [network |-> start_batch(network), result |-> Ok]
            ELSE LET iteration(before) == image(before, n) IN Bind(run[n - 1], iteration)
    IN  run[Len(batch)]

\* trainer_parallel.rs: chunk_size
chunk_size(len) == DivCeil(len, NUM_THREADS)

\* batch.chunks(chunk_size).take(NUM_THREADS): how many chunks are spawned
spawned_chunks(len) ==
    LET chunks == DivCeil(len, chunk_size(len))
    IN  IF chunks < NUM_THREADS THEN chunks ELSE NUM_THREADS

\* the variant of clone() that hands out the object it was called on
NeuralNetwork_shared(source, fresh) == source

\* #[derive(Clone)] NeuralNetwork::clone: the identity of the object a clone
\* of the object source yields, fresh being an identity not in use
NeuralNetwork_clone(source, fresh) == fresh

\* the variant of the receive loop body that keeps the last vector
combine_last(combined, gradients) == gradients

\* the body of the receive loop: combined after one received vector
combine(combined, gradients) ==
    IF combined = <<>> THEN gradients
    ELSE [i \in 1..Len(combined) |->
            IF i <= Len(gradients) THEN RAdd(combined[i], gradients[i]) ELSE combined[i]]

\* combined[i] is out of range for some i < gradients.len()
combine_panics(combined, gradients) ==
    combined # <<>> /\ Len(gradients) > Len(combined)

\* the variant of join() that returns at once
thread_started(worker) == TRUE

\* handle.join() returns: the thread has run to its end or has aborted
thread_finished(worker) == worker.state \in {"finished", "panicked"}

---------------------------------------------------------------------------
(* The trainer specification: one call of trainer_parallel::train.  The
   coordinator is the calling thread; the workers are the threads it spawns
   for the current batch; the steps of the threads interleave freely.  A
   worker handles one image per step. *)

\* images in the training set
MaxImages == 4

\* batches one call of train goes through
MaxBatches == 1

\* image number j for an input of n cells: pixels 0 or 255, the binary digits of j
TrainingImage(j, n) ==
    [ data |-> [i \in 1..n |-> 255 * ((j \div (2 ^ (i - 1))) % 2)],
      classification |-> IF j % 2 = 1 THEN "cat" ELSE "dog" ]

\* the networks handed to train: weights as FullyConnectedLayer::new leaves
\* them, biases 1/2
with_biases(layer) == [layer EXCEPT !.biases = BiasPattern(Len(layer.biases))]

OneLayerNetwork ==
    LET n0 == NeuralNetwork_new(HalfMeanSquaredError)
        n1 == register_layer(n0, NoActivation, make_input_layer(0, <<1, 1, 3>>))
    IN  register_layer(n1, ReLU, with_biases(FullyConnectedLayer_new(3, 1)))

TwoLayerNetwork ==
    LET n0 == NeuralNetwork_new(HalfMeanSquaredError)
        n1 == register_layer(n0, NoActivation, make_input_layer(0, <<1, 1, 3>>))
        n2 == register_layer(n1, ReLU, with_biases(FullyConnectedLayer_new(3, 2)))
    IN  register_layer(n2, NoActivation, with_biases(FullyConnectedLayer_new(2, 1)))

\* a convolution over the three input cells and one neuron with weight 1
ConvolutionalNetwork ==
    LET n0 == NeuralNetwork_new(HalfMeanSquaredError)
        n1 == register_layer(n0, NoActivation, make_input_layer(0, <<1, 1, 3>>))
        n2 == register_layer(n1, ReLU, with_biases(ConvolutionalLayer_new(0, 1, 1, <<1, 1, 1>>, 3)))
    IN  register_layer(n2, NoActivation,
                       [with_biases(FullyConnectedLayer_new(1, 1)) EXCEPT !.weights = <<One>>])

TrainerNetworks == {OneLayerNetwork, TwoLayerNetwork, ConvolutionalNetwork}

total_batches(j) == DivCeil(Len(j.images), j.batch_size)

\* the arguments of train: a training set, a batch size, the batch to start
\* at, a learning rate
Jobs ==
    { j \in [ images : { [i \in 1..n |-> TrainingImage(i, 3)] : n \in 1..MaxImages },
              batch_size : 1..MaxImages,
              start : 0..(MaxImages - 1),
              learning_rate : {One} ] :
        /\ j.start < total_batches(j)
        /\ total_batches(j) - j.start <= MaxBatches }

Master == 0

TrainerInit ==
    /\ GeometryIdle
    /\ PairIdle
    /\ NetworkIdle
    /\ job \in Jobs
    /\ \E network \in TrainerNetworks : instances = [id \in {Master} |-> network]
    /\ coordinator = [ pc |-> "next_batch", batch_idx |-> job.start, joined |-> 0,
                       combined |-> <<>>, order |-> <<>>, received |-> 0, written |-> 0,
                       ended |-> 0 ]
    /\ workers = <<>>
    /\ channel = [queue |-> <<>>, senders |-> 0]

CurrentBatch == Batch(job.images, job.batch_size, coordinator.batch_idx)

\* the head of the loop over the batches with a batch left: chunk_size,
\* neural_network.start_batch(), handles = Vec::new(), mpsc::channel()
BeginBatch ==
    /\ coordinator.pc = "next_batch"
    /\ coordinator.batch_idx < total_batches(job)
    /\ instances' = [id \in {Master} |-> start_batch(instances[Master])]
    /\ workers' = <<>>
    /\ channel' = [queue |-> <<>>, senders |-> 1]
    /\ coordinator' = [coordinator EXCEPT !.pc = "spawn", !.joined = 0, !.combined = <<>>,
                                         !.order = <<>>]
    /\ UNCHANGED <<job, geometryVars, pairVars, networkVars>>

\* one turn of the loop over the chunks: chunk.to_vec(), neural_network.clone(),
\* sender.clone(), thread::spawn, handles.push; after the last chunk the loop ends
Spawn ==
    /\ coordinator.pc = "spawn"
    /\ LET k == Len(workers)
           size == chunk_size(Len(CurrentBatch))
           id == NeuralNetwork_clone(Master, k + 1)
       IN  /\ instances' = IF id \in DOMAIN instances THEN instances
                           ELSE [i \in DOMAIN instances \cup {id} |->
                                    IF i = id THEN instances[Master] ELSE instances[i]]
           /\ workers' = Append(workers, [ state |-> "running", network |-> id,
                                           images_chunk |-> Chunk(CurrentBatch, size, k),
                                           processed |-> <<>> ])
           /\ channel' = [channel EXCEPT !.senders = @ + 1]
           /\ coordinator' = [coordinator EXCEPT !.pc =
                                IF k + 1 = spawned_chunks(Len(CurrentBatch)) THEN "drop_sender" ELSE "spawn"]
    /\ UNCHANGED <<job, geometryVars, pairVars, networkVars>>

\* drop(sender)
DropSender ==
    /\ coordinator.pc = "drop_sender"
    /\ channel' = [channel EXCEPT !.senders = @ - 1]
    /\ coordinator' = [coordinator EXCEPT !.pc = "join"]
    /\ UNCHANGED <<instances, workers, job, geometryVars, pairVars, networkVars>>

\* one turn of the loop over the handles: handle.join().unwrap(), which waits for
\* the thread and aborts the coordinator if the thread aborted
Join ==
    /\ coordinator.pc = "join"
    /\ LET w == coordinator.joined + 1
       IN  /\ thread_finished(workers[w])
           /\ coordinator' =
                [coordinator EXCEPT
                    !.joined = w,
                    !.pc = IF workers[w].state = "panicked" THEN "panicked"
                           ELSE IF w = Len(workers) THEN "receive" ELSE "join"]
    /\ UNCHANGED <<instances, workers, channel, job, geometryVars, pairVars, networkVars>>

\* one turn of the loop over the receiver: a result is taken from the channel
\* and added to combined
Receive ==
    /\ coordinator.pc = "receive"
    /\ channel.queue # <<>>
    /\ LET gradients == Head(channel.queue).gradients
       IN  coordinator' =
                IF combine_panics(coordinator.combined, gradients)
                THEN [coordinator EXCEPT !.pc = "panicked"]
                ELSE [coordinator EXCEPT !.combined = combine(@, gradients),
                                         !.order = Append(@, Head(channel.queue).from),
                                         !.received = @ + 1]
    /\ channel' = [channel EXCEPT !.queue = Tail(@)]
    /\ UNCHANGED <<instances, workers, job, geometryVars, pairVars, networkVars>>

\* the loop over the receiver ends: the channel is empty and every sender is dropped
ReceiveEnds ==
    /\ coordinator.pc = "receive"
    /\ channel.queue = <<>>
    /\ channel.senders = 0
    /\ coordinator' = [coordinator EXCEPT !.pc = "write_back"]
    /\ UNCHANGED <<instances, workers, channel, job, geometryVars, pairVars, networkVars>>

\* collect_gradients_mut and the loop that stores combined into the master
WriteBack ==
    /\ coordinator.pc = "write_back"
    /\ IF Len(collect_gradients(instances[Master])) > Len(coordinator.combined)
       THEN /\ coordinator' = [coordinator EXCEPT !.pc = "panicked"]
            /\ UNCHANGED instances
       ELSE /\ instances' = [instances EXCEPT ![Master] = collect_gradients_mut(@, coordinator.combined)]
            /\ coordinator' = [coordinator EXCEPT !.pc = "end_batch", !.written = @ + 1]
    /\ UNCHANGED <<workers, channel, job, geometryVars, pairVars, networkVars>>

\* neural_network.end_batch(batch_size as u8, learning_rate, 0.9, 5e-4), and on
\* to the next batch
EndBatch ==
    /\ coordinator.pc = "end_batch"
    /\ instances' = [instances EXCEPT ![Master] =
                        end_batch(@, as_u8(job.batch_size), job.learning_rate, Rat(9, 10), Rat(1, 2000))]
    /\ coordinator' = [coordinator EXCEPT !.pc = "next_batch", !.batch_idx = @ + 1, !.ended = @ + 1]
    /\ UNCHANGED <<workers, channel, job, geometryVars, pairVars, networkVars>>

\* the loop over the batches ends and train returns
Return ==
    /\ coordinator.pc = "next_batch"
    /\ coordinator.batch_idx >= total_batches(job)
    /\ coordinator' = [coordinator EXCEPT !.pc = "returned"]
    /\ UNCHANGED <<instances, workers, channel, job, geometryVars, pairVars, networkVars>>

\* worker w, one turn of its loop over images_chunk; an unwrap that fails ends
\* the thread and drops its sender
WorkerTrainImage(w) ==
    /\ w \in 1..Len(workers)
    /\ workers[w].state = "running"
    /\ workers[w].images_chunk # <<>>
    /\ LET number == Head(workers[w].images_chunk)
       IN  \E trained \in {train_image(instances[workers[w].network], job.images[number])} :
              /\ instances' = [instances EXCEPT ![workers[w].network] = trained.network]
              /\ workers' = [workers EXCEPT ![w] =
                                [@ EXCEPT !.images_chunk = Tail(@),
                                          !.processed = Append(@, number),
                                          !.state = IF trained.result = Ok THEN "running" ELSE "panicked"]]
              /\ channel' = IF trained.result = Ok THEN channel
                            ELSE [channel EXCEPT !.senders = @ - 1]
    /\ UNCHANGED <<coordinator, job, geometryVars, pairVars, networkVars>>

\* worker w after its loop: collect_gradients and sender.send, which never waits
\* on the unbounded channel
WorkerSend(w) ==
    /\ w \in 1..Len(workers)
    /\ workers[w].state = "running"
    /\ workers[w].images_chunk = <<>>
    /\ channel' = [channel EXCEPT !.queue =
                      Append(@, [gradients |-> collect_gradients(instances[workers[w].network]),
                                 from |-> w])]
    /\ workers' = [workers EXCEPT ![w].state = "sent"]
    /\ UNCHANGED <<instances, coordinator, job, geometryVars, pairVars, networkVars>>

\* worker w returns from its closure: its sender is dropped and the thread ends
WorkerExit(w) ==
    /\ w \in 1..Len(workers)
    /\ workers[w].state = "sent"
    /\ workers' = [workers EXCEPT ![w].state = "finished"]
    /\ channel' = [channel EXCEPT !.senders = @ - 1]
    /\ UNCHANGED <<instances, coordinator, job, geometryVars, pairVars, networkVars>>

CoordinatorNext ==
    \/ BeginBatch
    \/ Spawn
    \/ DropSender
    \/ Join
    \/ Receive
    \/ ReceiveEnds
    \/ WriteBack
    \/ EndBatch
    \/ Return

WorkerNext(w) == WorkerTrainImage(w) \/ WorkerSend(w) \/ WorkerExit(w)

TrainerNext == CoordinatorNext \/ \E w \in 1..NUM_THREADS : WorkerNext(w)

ParallelSpec == TrainerInit /\ [][TrainerNext]_vars

\* every thread that can take a step is scheduled in the end
FairParallelSpec ==
    /\ TrainerInit
    /\ [][TrainerNext]_vars
    /\ WF_vars(CoordinatorNext)
    /\ \A w \in 1..NUM_THREADS : WF_vars(WorkerNext(w))

---------------------------------------------------------------------------
(* C1 *)

\* how many times the workers of the batch have handled image number n
TimesProcessed(n) ==
    Cardinality({ p \in (1..Len(workers)) \X (1..MaxImages) :
                    /\ p[2] <= Len(workers[p[1]].processed)
                    /\ workers[p[1]].processed[p[2]] = n })

---------------------------------------------------------------------------
(* C2 *)

\* every chunk of the current batch has its worker, and every worker has run to
\* its end
EveryWorkerFinished ==
    /\ Len(workers) = spawned_chunks(Len(CurrentBatch))
    /\ \A w \in 1..Len(workers) : workers[w].state = "finished"

\* C2: (a) a step in which the coordinator takes a worker result from the
\* channel, writes the master's gradients or calls end_batch happens only when
\* every worker of the batch has finished; (b) end_batch is called once per
\* batch, after the write-back of that batch: the batch index advances only by
\* an end_batch that follows a write-back, and train returns with one
\* end_batch for each batch it went through; (c) under fair scheduling of the
\* threads train returns, so every batch completes.
C2_CoordinatorWaitsAndCompletes ==
    /\ [][ ( \/ coordinator'.received # coordinator.received
             \/ coordinator'.written # coordinator.written
             \/ coordinator'.ended # coordinator.ended ) => EveryWorkerFinished ]_vars
    /\ [][ ( \/ coordinator'.ended # coordinator.ended
             \/ coordinator'.batch_idx # coordinator.batch_idx ) =>
                /\ coordinator'.ended = coordinator.ended + 1
                /\ coordinator'.batch_idx = coordinator.batch_idx + 1
                /\ coordinator.written = coordinator.ended + 1
                /\ collect_gradients(instances[Master]) = coordinator.combined ]_vars
    /\ [](coordinator.ended = coordinator.batch_idx - job.start)
    /\ [](coordinator.pc = "returned" => coordinator.ended = total_batches(job) - job.start)
    /\ <>(coordinator.pc = "returned")

\* train has returned after a batch that NUM_THREADS workers shared
C2_Witness ==
    /\ coordinator # <<>>
    /\ coordinator.pc = "returned"
    /\ coordinator.ended >= 1
    /\ Len(workers) = NUM_THREADS
    /\ coordinator.received = NUM_THREADS

---------------------------------------------------------------------------
(* C3 *)

\* C3: every worker is spawned with an object of its own that holds a copy of
\* the master network as it is at that moment, and no step of a worker changes
\* the master network or the network of another worker.
C3_WorkerIsolation ==
    /\ [][ Spawn =>
            LET id == workers'[Len(workers')].network
            IN  /\ id \notin DOMAIN instances
                /\ instances'[id] = instances[Master]
                /\ instances'[Master] = instances[Master] ]_vars
    /\ [][ \A w \in 1..Len(workers) :
            WorkerNext(w) =>
                /\ instances'[Master] = instances[Master]
                /\ \A v \in (1..Len(workers)) \ {w} :
                      /\ workers[v].network # workers[w].network
                      /\ instances'[workers[v].network] = instances[workers[v].network] ]_vars

\* two workers have each handled an image and hold gradients that differ from
\* each other's and from the master's
C3_Witness ==
    /\ workers # <<>>
    /\ Len(workers) >= 2
    /\ workers[1].processed # <<>>
    /\ workers[2].processed # <<>>
    /\ instances[workers[1].network] # instances[workers[2].network]
    /\ instances[workers[1].network] # instances[Master]
    /\ instances[workers[2].network] # instances[Master]

---------------------------------------------------------------------------
(* C4 *)

\* C4: on one network and with no end_batch, any two training steps
\* (start_batch, set_input, forward_propagate, back_propagate) run with the
\* same input and the same expected output leave the same collect_gradients
\* vector, whatever the steps run before them left in the buffers; in
\* particular a step run twice in a row gives the same vector both times.
C4_TrainingStepIsDeterministic ==
    training # <<>> =>
        \A i, j \in 1..Len(training.log) :
            ( /\ training.log[i].input = training.log[j].input
              /\ training.log[i].target_output = training.log[j].target_output )
            => training.log[i].gradients = training.log[j].gradients

\* a step on one sample, then twice in a row a step on another sample, the
\* gradients not all zero and not those of the first step
C4_Witness ==
    /\ training # <<>>
    /\ Len(training.log) = 3
    /\ training.log[1].input # training.log[2].input
    /\ training.log[1].gradients # training.log[2].gradients
    /\ training.log[2].input = training.log[3].input
    /\ training.log[2].target_output = training.log[3].target_output
    /\ \E i \in 1..Len(training.log[3].gradients) : training.log[3].gradients[i] # Zero
    /\ \E l \in 1..Len(neural_network.layers) : neural_network.layers[l].layer.kind = Pooling

---------------------------------------------------------------------------
(* Reference definitions for the layer-pair claims, written from the claims'
   wording and not from the loops of the code *)

\* the sum of a sequence of numbers
RSum(q) ==
    LET sum[n \in 0..Len(q)] == IF n = 0 THEN Zero ELSE RAdd(sum[n - 1], q[n])
    IN  sum[Len(q)]

\* the cell (x, y, z) of a volume: offset z + depth * (y + height * x)
Cell(volume, dimension, x, y, z) ==
    volume[z + dimension[3] * (y + dimension[2] * x) + 1]

\* P(x, y, z): the volume of a layer surrounded on every side by a border of
\* zero_padding zero cells
PaddedCell(layer, x, y, z) ==
    LET p == layer.zero_padding
    IN  IF /\ p <= x /\ x < layer.dimension[1] + p
           /\ p <= y /\ y < layer.dimension[2] + p
        THEN Cell(layer.volume, layer.dimension, x - p, y - p, z)
        ELSE Zero

\* bias[c] + sum over z, kx, ky of kernel[kx, ky, z, c] * P(ox*s + kx, oy*s + ky, z)
ReferenceConvolution(input, layer, ox, oy, c) ==
    LET k == layer.kernel_size
        depth == input.dimension[3]
        term(n) ==
            LET z == (n - 1) % depth
                kx == ((n - 1) \div depth) % k
                ky == (n - 1) \div (depth * k)
            IN  RMul(layer.kernel[c * (k * k * layer.input_depth) + z * (k * k) + ky * k + kx + 1],
                     PaddedCell(input, ox * layer.stride + kx, oy * layer.stride + ky, z))
    IN  RAdd(layer.biases[c + 1], RSum([n \in 1..(depth * k * k) |-> term(n)]))

OutputCells(layer) ==
    (0..(layer.dimension[1] - 1)) \X (0..(layer.dimension[2] - 1)) \X (0..(layer.dimension[3] - 1))

\* the kernel offsets <<kx, ky>> of a window
Offsets(kernel_size) == (0..(kernel_size - 1)) \X (0..(kernel_size - 1))

\* the windows of a pooling layer over an input: <<ox, oy>>
Windows(layer) == (0..(layer.dimension[1] - 1)) \X (0..(layer.dimension[2] - 1))

\* the value of the input cell under offset o of window w, channel z
WindowCell(input, layer, w, o, z) ==
    Cell(input.volume, input.dimension, w[1] * layer.stride + o[1], w[2] * layer.stride + o[2], z)

\* o comes before q in the scan order kernel_y outer, kernel_x inner
ScansBefore(o, q) == o[2] < q[2] \/ (o[2] = q[2] /\ o[1] < q[1])

\* o is the first maximal cell of window w, channel z
FirstMaximal(input, layer, w, o, z) ==
    \A q \in Offsets(layer.kernel_size) :
        /\ RLe(WindowCell(input, layer, w, q, z), WindowCell(input, layer, w, o, z))
        /\ ScansBefore(q, o) => RLt(WindowCell(input, layer, w, q, z), WindowCell(input, layer, w, o, z))

\* window w covers the input position (x, y), under offset <<x - ox*s, y - oy*s>>
Covers(layer, w, x, y) ==
    <<x - w[1] * layer.stride, y - w[2] * layer.stride>> \in Offsets(layer.kernel_size)

\* the sum of f over a finite set of windows, f given as a function
SumOver(S, f) ==
    LET sum[T \in SUBSET S] ==
            IF T = {} THEN Zero
            ELSE LET w == CHOOSE v \in T : TRUE IN RAdd(f[w], sum[T \ {w}])
    IN  sum[S]

InputCells(layer) ==
    (0..(layer.dimension[1] - 1)) \X (0..(layer.dimension[2] - 1)) \X (0..(layer.dimension[3] - 1))

---------------------------------------------------------------------------
(* C5 *)

IsFixture ==
    /\ upstream = FixtureLayer1
    /\ downstream.kind = Convolutional
    /\ downstream.dimension = <<4, 4, 1>>
    /\ downstream.kernel = FixtureKernel
    /\ downstream.biases = FixtureBiases

\* C5: forward-propagating the 3x3x2 fixture input (padding 1) into the fixture
\* convolutional layer (kernel_size 2, stride 1, weights [1,0.5,0.5,1,0.5,1,1,0.5],
\* bias 0.5, output 4x4x1) succeeds and leaves exactly the documented volume
\* [6.5,18.5,12.5,0.5, 21.5,45.5,24.5,0.5, 15.5,27.5,12.5,0.5, 0.5,0.5,0.5,0.5].
C5_FixtureReproduced ==
    (IsFixture /\ outcome.forward # Pending) =>
        /\ outcome.forward = Ok
        /\ downstream.volume = FixtureExpected

---------------------------------------------------------------------------
(* C6 *)

\* C6: after a forward pass the dimension check accepted, every output cell
\* (ox, oy, c) of a convolutional layer holds, in the raw and in the activated
\* buffer, bias[c] + sum of kernel[kx,ky,z,c] * P(ox*s+kx, oy*s+ky, z) over the
\* input channels and kernel offsets, P being the zero-padded input.  Stated
\* for upstream layers whose depth is the layer's declared input_depth.
C6_ConvolutionIsZeroPadded ==
    ( /\ outcome # <<>>
      /\ outcome.forward = Ok
      /\ downstream.kind = Convolutional
      /\ upstream.dimension[3] = downstream.input_depth ) =>
        \A o \in OutputCells(downstream) :
            LET index == o[3] + downstream.dimension[3] * (o[2] + downstream.dimension[2] * o[1]) + 1
                reference == ReferenceConvolution(upstream, downstream, o[1], o[2], o[3])
            IN  /\ downstream.raw_volume[index] = reference
                /\ downstream.volume[index] = reference

---------------------------------------------------------------------------
(* C7 *)

\* C7: after a forward pass the dimension check accepted, every output cell
\* (ox, oy, z) of a Max pooling layer equals the maximum of the input cells in
\* its kernel window, whatever their signs.  Stated for upstream layers of the
\* pooling layer's depth.
C7_MaxPoolingIsWindowMaximum ==
    ( /\ outcome # <<>>
      /\ outcome.forward = Ok
      /\ downstream.kind = Pooling
      /\ downstream.pooling_type = PoolingMax
      /\ upstream.dimension[3] = downstream.dimension[3] ) =>
        \A o \in OutputCells(downstream) :
            LET value == Cell(downstream.volume, downstream.dimension, o[1], o[2], o[3])
                w == <<o[1], o[2]>>
            IN  /\ \E q \in Offsets(downstream.kernel_size) :
                      value = WindowCell(upstream, downstream, w, q, o[3])
                /\ \A q \in Offsets(downstream.kernel_size) :
                      RLe(WindowCell(upstream, downstream, w, q, o[3]), value)

---------------------------------------------------------------------------
(* C8 *)

\* the gradient window w of the pooling layer holds for channel z
WindowGradient(layer, w, z) ==
    Cell(layer.volume_gradients, layer.dimension, w[1], w[2], z)

---------------------------------------------------------------------------
(* C9 *)

\* C9: after an Average pooling layer has back-propagated into its upstream
\* layer, every upstream gradient cell holds the sum, over the windows covering
\* it, of output_gradient / kernel_size^2; each window's kernel_size^2 shares
\* add up to its output gradient, so the upstream buffer sums to the sum of the
\* output gradients of all windows and channels.
C9_AveragePoolingConservesGradient ==
    ( /\ outcome # <<>>
      /\ outcome.backward = Ok
      /\ downstream.kind = Pooling
      /\ downstream.pooling_type = PoolingAverage ) =>
        LET k == downstream.kernel_size
            share(w, z) == RDiv(WindowGradient(downstream, w, z), R(k * k))
            channels == 0..(upstream.dimension[3] - 1)
            everything == Windows(downstream) \X channels
        IN  /\ \A c \in InputCells(upstream) :
                  LET covering == { w \in Windows(downstream) : Covers(downstream, w, c[1], c[2]) }
                  IN  Cell(upstream.volume_gradients, upstream.dimension, c[1], c[2], c[3])
                      = SumOver(covering, [w \in covering |-> share(w, c[3])])
            /\ RSum(upstream.volume_gradients)
               = SumOver(everything, [e \in everything |-> WindowGradient(downstream, e[1], e[2])])

\* an Average pooling layer with 2x2 overlapping windows has back-propagated
\* gradients that are not all zero
C9_Witness ==
    /\ outcome # <<>>
    /\ outcome.backward = Ok
    /\ downstream.kind = Pooling
    /\ downstream.pooling_type = PoolingAverage
    /\ downstream.kernel_size = 2
    /\ downstream.stride = 1
    /\ downstream.dimension[1] * downstream.dimension[2] >= 2
    /\ \E i \in 1..Len(upstream.volume_gradients) : upstream.volume_gradients[i] # Zero

---------------------------------------------------------------------------
(* C10 *)

\* ceil(a / b) for a >= 0, b >= 1, stated without the code's rounding trick:
\* the least q with q * b >= a
CeilDiv(a, b) == CHOOSE q \in 0..a : q * b >= a /\ \A r \in 0..(q - 1) : r * b < a

C10_Rejected(c) ==
    \/ c.num_kernels = 0
    \/ c.kernel_size = 0
    \/ c.stride = 0
    \/ c.dimension[1] = 0
    \/ c.dimension[2] = 0
    \/ c.dimension[3] = 0
    \/ c.kernel_size - 1 >= c.dimension[1] + 2 * c.zero_padding
    \/ c.kernel_size - 1 >= c.dimension[2] + 2 * c.zero_padding

\* C10: get_output_dimension returns no result exactly when num_kernels,
\* kernel_size or stride is 0, or an input dimension is 0, or kernel_size - 1
\* reaches the padded width or height; otherwise it returns
\* (ceil((w + 2p - k + 1)/s), ceil((h + 2p - k + 1)/s), num_kernels), all
\* components at least 1.
C10_OutputDimension ==
    answer # Pending =>
        IF C10_Rejected(call)
        THEN answer = None
        ELSE /\ answer = Some(<<CeilDiv(call.dimension[1] + 2 * call.zero_padding - call.kernel_size + 1, call.stride),
                                CeilDiv(call.dimension[2] + 2 * call.zero_padding - call.kernel_size + 1, call.stride),
                                call.num_kernels>>)
             /\ \A i \in 1..3 : answer[1][i] >= 1

\* a call with stride 2 over an odd strided length has returned a dimension
C10_Witness ==
    /\ answer # Pending
    /\ answer # None
    /\ call.stride = 2
    /\ call.zero_padding = 1
    /\ (call.dimension[1] + 2 * call.zero_padding - call.kernel_size + 1) % 2 = 1


---------------------------------------------------------------------------
(* C11 *)

\* C11: check_output_dimension agrees with get_output_dimension on the same
\* arguments: when get_output_dimension returned a dimension, the check returns
\* Ok for that dimension as the expected one and DimensionMismatch for any
\* other; when it returned nothing, the check returns ImpossibleOutputDimension
\* whatever is expected.
C11_CheckAgreesWithOutputDimension ==
    (answer # Pending /\ verdict # None) =>
        verdict[1].result = IF answer = None THEN ImpossibleOutputDimension
                            ELSE IF verdict[1].expected_dimension = answer[1] THEN Ok
                            ELSE DimensionMismatch

\* a check against a dimension that differs from the returned one in the depth
\* only has been made
C11_Witness ==
    /\ answer # Pending
    /\ answer # None
    /\ verdict # None
    /\ verdict[1].expected_dimension[1] = answer[1][1]
    /\ verdict[1].expected_dimension[2] = answer[1][2]
    /\ verdict[1].expected_dimension[3] # answer[1][3]

---------------------------------------------------------------------------
(* C12 *)

\* C12: for the positions of a volume looked up so far, get_index returned
\* z + d * (y + h * x), a value below w * h * d, and different values for
\* different positions; once every position has been looked up, every offset
\* below w * h * d has been returned.
C12_IndexIsBijection ==
    (call \in IndexCalls) =>
        LET w == call.dimension[1]
            h == call.dimension[2]
            d == call.dimension[3]
        IN  /\ \A i \in 1..Len(offsets) :
                  LET p == ScanPosition(call.dimension, i - 1)
                  IN  /\ p[1] < w /\ p[2] < h /\ p[3] < d
                      /\ offsets[i] = p[3] + d * (p[2] + h * p[1])
                      /\ offsets[i] >= 0
                      /\ offsets[i] < w * h * d
                      /\ \A j \in 1..Len(offsets) : offsets[j] = offsets[i] => j = i
            /\ Len(offsets) = w * h * d => { offsets[i] : i \in 1..Len(offsets) } = 0..(w * h * d - 1)

\* every position of a volume with different width and height and a depth of 2
\* has been looked up
C12_Witness ==
    /\ call \in IndexCalls
    /\ call.dimension[1] >= 2
    /\ call.dimension[2] > call.dimension[1]
    /\ call.dimension[3] = 2
    /\ Len(offsets) = Cells(call.dimension)

---------------------------------------------------------------------------
(* C13 *)

\* C13: a call of set_input with a vector whose length differs from the length
\* of the input layer's volume returns IncompatibleLayers and leaves the input
\* volume as it was.
C13_SetInputRejectsWrongLength ==
    [][ ( /\ training.next = "set_input"
          /\ training'.next = "forward_propagate"
          /\ Len(training'.input) # Len(neural_network.layers[1].layer.volume) ) =>
            /\ training'.result = IncompatibleLayers
            /\ neural_network'.layers[1].layer.volume = neural_network.layers[1].layer.volume ]_vars


\* C14: on a network with at least one layer, a call of back_propagate
\* returns IncompatibleLayers when the last layer is not fully connected, and
\* InvalidInput when the last layer is fully connected and the expected vector
\* is not as long as the layer has neurons; in both cases every buffer of
\* every layer is as before the call.
C14_BackPropagateRejectsBeforeMutating ==
    [][ ( /\ training.next = "back_propagate"
          /\ training'.next = "start_batch"
          /\ Len(neural_network.layers) >= 1 ) =>
            LET last == neural_network.layers[Len(neural_network.layers)].layer
            IN  /\ last.kind # FullyConnected =>
                        /\ training'.result = IncompatibleLayers
                        /\ neural_network' = neural_network
                /\ ( /\ last.kind = FullyConnected
                     /\ Len(training'.target_output) # last.num_neurons ) =>
                        /\ training'.result = InvalidInput
                        /\ neural_network' = neural_network ]_vars

\* back_propagate has returned InvalidInput in the second sample of a batch,
\* with gradients of the first sample in the buffers
C14_Witness ==
    /\ training # <<>>
    /\ training.result = InvalidInput
    /\ Len(training.target_output) = 2
    /\ Len(training.batch) = 1
    /\ \E i \in 1..Len(collect_gradients(neural_network)) : collect_gradients(neural_network)[i] # Zero
    /\ neural_network.layers[Len(neural_network.layers)].layer.value_gradients # Zeros(1)


---------------------------------------------------------------------------
(* Reference definitions for the claims on end_batch and start_batch, written
   from the claims' wording *)

\* a step of the network specification in which end_batch was called
EndBatchStep == training # <<>> /\ training' # <<>> /\ training'.ended = training.ended + 1

\* the weights of a layer that has some, their velocities and their gradients
LayerWeights(layer) == IF layer.kind = Convolutional THEN layer.kernel ELSE layer.weights
LayerWeightVelocity(layer) ==
    IF layer.kind = Convolutional THEN layer.kernel_velocity ELSE layer.weight_velocity
LayerWeightGradients(layer) ==
    IF layer.kind = Convolutional THEN layer.kernel_gradients ELSE layer.weight_gradients

\* after is before with one classical momentum step taken
IsMomentumStep(before, after, lr, momentum, weight_decay) ==
    /\ after.kind = before.kind
    /\ Len(LayerWeights(after)) = Len(LayerWeights(before))
    /\ Len(after.biases) = Len(before.biases)
    /\ \A i \in 1..Len(LayerWeights(before)) :
          \E v \in { RAdd(RMul(momentum, LayerWeightVelocity(before)[i]),
                          RMul(lr, RAdd(LayerWeightGradients(before)[i],
                                        RMul(weight_decay, LayerWeights(before)[i])))) } :
              /\ LayerWeightVelocity(after)[i] = v
              /\ LayerWeights(after)[i] = RSub(LayerWeights(before)[i], v)
    /\ \A i \in 1..Len(before.biases) :
          \E v \in { RAdd(RMul(momentum, before.bias_velocity[i]),
                          RMul(lr, before.bias_gradients[i])) } :
              /\ after.bias_velocity[i] = v
              /\ after.biases[i] = RSub(before.biases[i], v)
    /\ LayerWeightGradients(after) = LayerWeightGradients(before)
    /\ after.bias_gradients = before.bias_gradients

\* C15: apply_gradients, as end_batch calls it on a convolutional or a fully
\* connected layer behind the input layer, takes one classical momentum step:
\* for every weight v' = momentum*v + lr*(gradient + weight_decay*weight) and
\* weight' = weight - v', for every bias v' = momentum*v + lr*gradient and
\* bias' = bias - v', by the same formula in both kinds of layer, and the
\* gradient buffers stay as they are.
C15_ApplyGradientsIsMomentumStep ==
    [][ EndBatchStep =>
          \A l \in 2..Len(neural_network.layers) :
              neural_network.layers[l].layer.kind \in {Convolutional, FullyConnected} =>
                  IsMomentumStep(neural_network.layers[l].layer,
                                 neural_network'.layers[l].layer,
                                 RDiv(training'.applied[1].learning_rate,
                                      R(training'.applied[1].sample_count)),
                                 training'.applied[1].momentum,
                                 training'.applied[1].weight_decay) ]_vars

\* end_batch has been called twice on a batch of two samples, on a network
\* with a convolutional and a fully connected layer behind the input layer,
\* whose weights, gradients and velocities are not all zero
C15_Witness ==
    /\ training # <<>>
    /\ training.ended = 2
    /\ Len(training.batch) = 2
    /\ \E l, k \in 2..Len(neural_network.layers) :
          /\ neural_network.layers[l].layer.kind = Convolutional
          /\ neural_network.layers[k].layer.kind = FullyConnected
          /\ \A n \in {l, k} :
                /\ \E i \in 1..Len(LayerWeights(neural_network.layers[n].layer)) :
                      /\ LayerWeights(neural_network.layers[n].layer)[i] # Zero
                      /\ LayerWeightGradients(neural_network.layers[n].layer)[i] # Zero
                      /\ LayerWeightVelocity(neural_network.layers[n].layer)[i] # Zero
                /\ \E i \in 1..Len(neural_network.layers[n].layer.biases) :
                      /\ neural_network.layers[n].layer.bias_gradients[i] # Zero
                      /\ neural_network.layers[n].layer.bias_velocity[i] # Zero


\* C16: end_batch(sample_count, lr, momentum, weight_decay) leaves every
\* layer behind the input layer as one call of apply_gradients with the
\* learning rate lr/sample_count leaves it, and leaves the input layer (index
\* 0 of the code) and every pooling layer exactly as they were.
C16_EndBatchAppliesOnceBehindInput ==
    [][ EndBatchStep =>
          /\ Len(neural_network'.layers) = Len(neural_network.layers)
          /\ neural_network'.error_function = neural_network.error_function
          /\ neural_network'.layers[1] = neural_network.layers[1]
          /\ \A l \in 2..Len(neural_network.layers) :
                /\ neural_network'.layers[l].activation_function =
                        neural_network.layers[l].activation_function
                /\ neural_network'.layers[l].layer =
                        apply_gradients(neural_network.layers[l].layer,
                                        RDiv(training'.applied[1].learning_rate,
                                             R(training'.applied[1].sample_count)),
                                        training'.applied[1].momentum,
                                        training'.applied[1].weight_decay)
                /\ neural_network.layers[l].layer.kind = Pooling =>
                        neural_network'.layers[l] = neural_network.layers[l] ]_vars

\* end_batch has been called once, with a sample count of two, on a network
\* with a pooling layer that holds a gradient and with a layer behind it whose
\* velocity is no longer zero
C16_Witness ==
    /\ training # <<>>
    /\ training.ended = 1
    /\ training.applied[1].sample_count = 2
    /\ neural_network.layers[1].layer.volume # Zeros(Len(neural_network.layers[1].layer.volume))
    /\ \E l, k \in 2..Len(neural_network.layers) :
          /\ l < k
          /\ neural_network.layers[l].layer.kind = Pooling
          /\ \E i \in 1..Len(neural_network.layers[l].layer.volume_gradients) :
                neural_network.layers[l].layer.volume_gradients[i] # Zero
          /\ neural_network.layers[k].layer.kind = FullyConnected
          /\ \E i \in 1..Len(neural_network.layers[k].layer.weight_velocity) :
                neural_network.layers[k].layer.weight_velocity[i] # Zero


\* the fields in which a layer accumulates the gradients of a batch
Accumulators == {"bias_gradients", "kernel_gradients", "weight_gradients"}

\* the vector collect_gradients returns after one training step on one sample,
\* begun with start_batch, on the network with its present parameters
SampleGradients(network, sample) ==
    CHOOSE gradients \in
        UNION { UNION { { collect_gradients(network_back_propagate(forward.network,
                                                                  sample.target_output).network)
                          : forward \in {network_forward_propagate(set.network)} }
                        : set \in {network_set_input(reset, sample.input)} }
                : reset \in {start_batch(network)} } : TRUE

\* the elementwise sum of the vectors of the samples of a batch
BatchGradients(network, batch) ==
    LET sum[n \in 0..Len(batch)] ==
            IF n = 0 THEN Zeros(Len(collect_gradients(network)))
            ELSE Bind2(sum[n - 1], SampleGradients(network, batch[n]),
                       LAMBDA before, sample : [i \in 1..Len(before) |-> RAdd(before[i], sample[i])])
    IN  sum[Len(batch)]

\* C17: start_batch leaves every entry of collect_gradients zero and every
\* other field of every layer (weights, biases, velocities, volumes) as it
\* was; and after each back_propagate that returns Ok, collect_gradients is
\* the sum of the gradients of the samples back-propagated since the last
\* start_batch, and of no other.
C17_StartBatchResetsAccumulationOnly ==
    [][ /\ ( /\ training # <<>>
             /\ training.next = "start_batch"
             /\ training'.next = "set_input" ) =>
                /\ collect_gradients(neural_network') = Zeros(Len(collect_gradients(neural_network)))
                /\ Len(neural_network'.layers) = Len(neural_network.layers)
                /\ \A l \in 1..Len(neural_network.layers) :
                      /\ neural_network'.layers[l].activation_function =
                            neural_network.layers[l].activation_function
                      /\ DOMAIN neural_network'.layers[l].layer = DOMAIN neural_network.layers[l].layer
                      /\ \A field \in DOMAIN neural_network.layers[l].layer \ Accumulators :
                            neural_network'.layers[l].layer[field] =
                                neural_network.layers[l].layer[field]
        /\ ( /\ training # <<>>
             /\ training.next = "back_propagate"
             /\ training'.next = "start_batch"
             /\ training'.result = Ok ) =>
                collect_gradients(neural_network') = BatchGradients(neural_network', training'.batch)
      ]_vars

\* start_batch has been called after a batch of two samples, the second one
\* added to the first, and after an end_batch: the accumulators are zero, and
\* weights, biases and velocities are not
C17_Witness ==
    /\ training # <<>>
    /\ training.next = "set_input"
    /\ training.ended = 1
    /\ training.runs = 2
    /\ Len(training.log) = 1
    /\ Len(collect_gradients(neural_network)) > 0
    /\ collect_gradients(neural_network) = Zeros(Len(collect_gradients(neural_network)))
    /\ \E l \in 2..Len(neural_network.layers) :
          /\ neural_network.layers[l].layer.kind = FullyConnected
          /\ \E i \in 1..Len(neural_network.layers[l].layer.weights) :
                /\ neural_network.layers[l].layer.weights[i] # Zero
                /\ neural_network.layers[l].layer.weight_velocity[i] # Zero
          /\ \E i \in 1..Len(neural_network.layers[l].layer.biases) :
                /\ neural_network.layers[l].layer.biases[i] # Zero
                /\ neural_network.layers[l].layer.bias_velocity[i] # Zero
          /\ \E i \in 1..Len(neural_network.layers[l].layer.values) :
                neural_network.layers[l].layer.values[i] # Zero


\* the value a reference of collect_gradients_mut points at
Referenced(network, cell) == network.layers[cell.layer].layer[cell.field][cell.index]

\* collect_gradients reads, place by place, the cells collect_gradients_mut
\* refers to, and no cell twice
SameCells(network) ==
    \E references \in {gradient_references(network)}, collected \in {collect_gradients(network)} :
        /\ Len(references) = Len(collected)
        /\ \A i \in 1..Len(references) : collected[i] = Referenced(network, references[i])
        /\ \A i, j \in 1..Len(references) : references[i] = references[j] => i = j

\* C18: collect_gradients and collect_gradients_mut go through the same cells
\* in the same order and return vectors of one length; once a vector v has
\* been stored through the references of collect_gradients_mut,
\* collect_gradients returns v, and nothing but the accumulators has changed.
C18_CollectedVectorsAgree ==
    [][ /\ training # <<>> => SameCells(neural_network)
        /\ training' # <<>> => SameCells(neural_network')
        /\ ( /\ training # <<>>
             /\ training.written = None
             /\ training'.written # None ) =>
                /\ Len(training'.written[1]) = Len(gradient_references(neural_network))
                /\ collect_gradients(neural_network') = training'.written[1]
                /\ \A l \in 1..Len(neural_network.layers) :
                      \A field \in DOMAIN neural_network.layers[l].layer \ Accumulators :
                          neural_network'.layers[l].layer[field] = neural_network.layers[l].layer[field]
      ]_vars

\* a vector of values that all differ has been stored into a network with a
\* convolutional, a pooling and a fully connected layer, over the gradients of
\* two samples
C18_Witness ==
    /\ training # <<>>
    /\ training.written # None
    /\ training.ended = 0
    /\ Len(training.batch) = 2
    /\ Len(training.written[1]) >= 7
    /\ collect_gradients(neural_network) = training.written[1]
    /\ \E l, p, k \in 2..Len(neural_network.layers) :
          /\ neural_network.layers[l].layer.kind = Convolutional
          /\ Len(neural_network.layers[l].layer.kernel_gradients) > 1
          /\ neural_network.layers[p].layer.kind = Pooling
          /\ neural_network.layers[k].layer.kind = FullyConnected


\* the errors a pairing of two layers returns
PairingErrors == {DimensionMismatch, ImpossibleOutputDimension, IncompatibleLayers}

\* C19: when upstream.forward_propagate(downstream) or
\* downstream.back_propagate(upstream) returns DimensionMismatch,
\* ImpossibleOutputDimension or IncompatibleLayers, every buffer of the two
\* layers is as it was before the call.
C19_FailedPairingChangesNothing ==
    [][ /\ ( /\ outcome # <<>>
             /\ outcome.forward = Pending
             /\ outcome'.forward \in PairingErrors ) =>
                upstream' = upstream /\ downstream' = downstream
        /\ ( /\ outcome # <<>>
             /\ outcome.backward = Pending
             /\ outcome'.backward \in PairingErrors ) =>
                upstream' = upstream /\ downstream' = downstream ]_vars

\* a fully connected layer has refused the convolutional layer behind it in the
\* forward pass, both layers holding values and gradients that are not zero,
\* and the backward pass has been run as well
C19_Witness ==
    /\ outcome # <<>>
    /\ outcome.forward = IncompatibleLayers
    /\ outcome.backward # Pending
    /\ upstream.kind = FullyConnected
    /\ downstream.kind = Convolutional
    /\ \E i \in 1..Len(upstream.value_gradients) : upstream.value_gradients[i] # Zero
    /\ \E i \in 1..Len(downstream.volume) : downstream.volume[i] # Zero


\* C20: binary cross-entropy and its derivative, evaluated in f32 on finite
\* output values (0, 1, values below 0 and above 1 among them) and expected
\* values 0 or 1, return neither NaN nor an infinity.
C20_CrossEntropyIsFinite ==
    (answer # Pending /\ answer # None) => answer[1].class = F32Finite


\* C21: after back_propagate has back-activated a convolutional layer behind
\* the input layer, every cell i of its back-activated volume equals the
\* derivative of the layer's activation function at raw_volume[i], times
\* volume_gradients[i]: the rule the fully connected layer applies.
C21_ConvolutionalBackActivationUsesDerivative ==
    ( /\ training # <<>>
      /\ training.next = "start_batch"
      /\ training.result = Ok
      /\ training.runs >= 1 ) =>
        \A l \in 2..Len(neural_network.layers) :
            neural_network.layers[l].layer.kind = Convolutional =>
                \A i \in 1..Len(neural_network.layers[l].layer.volume) :
                    neural_network.layers[l].layer.back_activated_volume[i] =
                        RMul(activations_eval_derivative(neural_network.layers[l].activation_function,
                                                         neural_network.layers[l].layer.raw_volume[i]),
                             neural_network.layers[l].layer.volume_gradients[i])

---------------------------------------------------------------------------
(* The zero-padding specification: util::query_zero_padded on every position
   of the padded window of a volume, in a build with overflow checks and in
   one without. *)

\* the calls of query_zero_padded under study: a dimension, a padding and a
\* position of the padded window
PaddedCalls ==
    UNION { [ dimension : {dimension}, zero_padding : {zero_padding},
              position : (0..(dimension[1] + 2 * zero_padding - 1))
                         \X (0..(dimension[2] + 2 * zero_padding - 1))
                         \X (0..(dimension[3] - 1)) ]
            : dimension \in (0..MaxDim) \X (0..MaxDim) \X GeometryDepth,
              zero_padding \in GeometryPadding }

PaddedInit ==
    /\ call \in PaddedCalls
    /\ answer = Pending
    /\ verdict = None
    /\ offsets = <<>>
    /\ PairIdle
    /\ NetworkIdle
    /\ TrainerIdle

\* query_zero_padded(position, input_dimension, zero_padding) in a build with
\* or without overflow checks
CallQueryZeroPadded ==
    /\ answer = Pending
    /\ \E checks \in BOOLEAN :
          answer' = Some([ overflow_checks |-> checks,
                           result |-> IF checks /\ query_zero_padded_underflows(call.position,
                                                                                call.dimension,
                                                                                call.zero_padding)
                                      THEN Panic
                                      ELSE query_zero_padded(call.position, call.dimension,
                                                             call.zero_padding) ])
    /\ UNCHANGED <<call, verdict, offsets, pairVars, networkVars, trainerVars>>

PaddedNext == CallQueryZeroPadded

PaddedSpec == PaddedInit /\ [][PaddedNext]_vars

\* C22: for a dimension (w, h, d), a padding p and a padded coordinate (x, y, z)
\* with x < w + 2p, y < h + 2p and z < d, query_zero_padded returns
\* get_index((x - p, y - p, z), (w, h, d)) when p <= x < w + p and
\* p <= y < h + p, and none otherwise.
C22_QueryZeroPaddedLooksUpInterior ==
    (answer # Pending /\ answer # None) =>
        answer[1].result =
            IF /\ call.zero_padding <= call.position[1]
               /\ call.position[1] < call.dimension[1] + call.zero_padding
               /\ call.zero_padding <= call.position[2]
               /\ call.position[2] < call.dimension[2] + call.zero_padding
            THEN Some(get_index(<<call.position[1] - call.zero_padding,
                                  call.position[2] - call.zero_padding,
                                  call.position[3]>>, call.dimension))
            ELSE None

\* the depth the upstream volume has differs from the depth the downstream
\* layer is built for: the input_depth of a convolutional layer, the depth of
\* a pooling layer
DepthsDiffer ==
    /\ upstream # <<>>
    /\ upstream.kind # FullyConnected
    /\ \/ /\ downstream.kind = Convolutional
          /\ downstream.input_depth # upstream.dimension[3]
       \/ /\ downstream.kind = Pooling
          /\ downstream.dimension[3] # upstream.dimension[3]

\* C23: a forward_propagate or back_propagate pairing in which the depth of
\* the upstream output differs from the input_depth the downstream
\* convolutional layer declares, or from the depth of the downstream pooling
\* layer, returns DimensionMismatch.
C23_DepthMismatchIsRejected ==
    DepthsDiffer =>
        /\ outcome.forward \in {Pending, DimensionMismatch}
        /\ outcome.backward \in {Pending, DimensionMismatch}

\* C24: for every pair of spatial layers, whatever its dimensions, depths,
\* paddings, kernel sizes and strides, a forward or backward pass that the
\* dimension check lets through does not abort: every index it reads or
\* writes lies in its buffer and no unsigned subtraction goes below zero.
C24_CheckedPairingDoesNotAbort ==
    ( /\ upstream # <<>>
      /\ upstream.kind # FullyConnected
      /\ downstream.kind # FullyConnected ) =>
        /\ outcome.forward # Panic
        /\ outcome.backward # Panic

\* the pairings i, i + 1, ... of a forward sweep one after the other (layers
\* counted from 0): layer i feeds layer i + 1, which is then activated; the
\* first pairing that fails ends the sweep
RECURSIVE ForwardSweep(_, _)
ForwardSweep(layers, i) ==
    IF i + 2 > Len(layers) THEN [layers |-> layers, result |-> Ok]
    ELSE Bind(forward_propagate(layers[i + 1].layer, layers[i + 2].layer), LAMBDA step :
            IF step.result # Ok THEN [layers |-> layers, result |-> step.result]
            ELSE Bind([layers EXCEPT ![i + 2].layer =
                                        activate(step.next, layers[i + 2].activation_function)],
                      LAMBDA after : ForwardSweep(after, i + 1)))

\* the steps i, i - 1, ..., 1 of a backward sweep: layer i is back-activated
\* and then propagates into layer i - 1
RECURSIVE BackwardSweep(_, _)
BackwardSweep(layers, i) ==
    IF i < 1 THEN [layers |-> layers, result |-> Ok]
    ELSE Bind(backward_activate(layers[i + 1].layer, layers[i + 1].activation_function),
              LAMBDA activated :
            Bind(back_propagate(activated, layers[i].layer), LAMBDA step :
                IF step.result = Panic THEN [layers |-> layers, result |-> Panic]
                ELSE Bind([layers EXCEPT ![i + 1].layer = step.self, ![i].layer = step.previous],
                          LAMBDA after :
                            IF step.result # Ok THEN [layers |-> after, result |-> step.result]
                            ELSE BackwardSweep(after, i - 1))))

\* the network whose output gradients have been calculated for the target
WithOutputGradients(network, target_output) ==
    Bind(calculate_output_gradients(network.layers[Len(network.layers)].layer,
                                    network.error_function, target_output),
         LAMBDA output : [layers |-> [network.layers EXCEPT ![Len(network.layers)].layer = output.layer],
                          result |-> output.result])

\* C25: forward_propagate runs, for i = 0 .. n - 2, layer i's forward_propagate
\* into layer i + 1 and then layer i + 1's activation, stops at the first
\* pairing that fails and returns its error with every later layer as it was;
\* the input layer is not activated.  back_propagate runs, for i = n - 1 down
\* to 1, layer i's back-activation and then its back_propagate into layer
\* i - 1.
C25_SweepOrder ==
    [][ /\ ( /\ training # <<>>
             /\ training.next = "forward_propagate"
             /\ training'.next = "back_propagate" ) =>
                \E sweep \in {ForwardSweep(neural_network.layers, 0)} :
                    /\ training'.result = sweep.result
                    /\ sweep.result # Panic => neural_network'.layers = sweep.layers
        /\ ( /\ training # <<>>
             /\ training.next = "back_propagate"
             /\ training'.next = "start_batch"
             /\ neural_network.layers[Len(neural_network.layers)].layer.kind = FullyConnected ) =>
                \E first \in {WithOutputGradients(neural_network, training'.target_output)} :
                    first.result = Ok =>
                        \E sweep \in {BackwardSweep(first.layers, Len(first.layers) - 1)} :
                            /\ training'.result = sweep.result
                            /\ sweep.result # Panic => neural_network'.layers = sweep.layers ]_vars

\* a forward pass has stopped at its second pairing: the first fully connected
\* layer holds activated values, the layers behind the pairing hold none
C25_Witness ==
    /\ training # <<>>
    /\ training.next = "back_propagate"
    /\ training.result = DimensionMismatch
    /\ Len(neural_network.layers) = 4
    /\ \E i \in 1..2 : neural_network.layers[2].layer.values[i] # Zero
    /\ neural_network.layers[3].layer.values = <<Zero>>
    /\ neural_network.layers[4].layer.values = <<Zero>>

\* C26: for every ordered pair of layers, downstream.back_propagate(upstream)
\* returns Ok exactly when upstream.forward_propagate(downstream) returns Ok;
\* a fully connected layer followed by a convolutional or pooling layer is
\* refused in both directions.
C26_WiringChecksAgree ==
    ( /\ outcome # <<>>
      /\ outcome.forward \notin {Pending, Panic}
      /\ outcome.backward \notin {Pending, Panic} ) =>
        /\ outcome.forward = Ok <=> outcome.backward = Ok
        /\ (upstream.kind = FullyConnected /\ downstream.kind # FullyConnected) =>
                outcome.forward # Ok /\ outcome.backward # Ok

---------------------------------------------------------------------------
(* The interface specification: the operations of NeuralNetwork that return a
   Result, called in any order on a network with no layer and on networks
   with layers, until one of them aborts the process. *)

\* calls one caller makes
MaxCalls == 2

\* NeuralNetwork::get_error: the result (the network is not changed).  With no
\* layer, len() - 1 underflows: an abort with overflow checks, an index out of
\* bounds without them.
network_get_error(self, target_output) ==
    IF Len(self.layers) = 0 THEN Panic
    ELSE IF At(self.layers, Len(self.layers) - 1).layer.kind = FullyConnected
    THEN IF Len(At(self.layers, Len(self.layers) - 1).layer.values) # Len(target_output)
         THEN InvalidInput
         ELSE Ok
    ELSE InvalidInput

\* NeuralNetwork::get_output: the result
network_get_output(self) ==
    IF Len(self.layers) = 0 THEN Panic
    ELSE IF At(self.layers, Len(self.layers) - 1).layer.kind = FullyConnected THEN Ok
    ELSE InvalidInput

\* Layer::initialize: the samples drawn fill the kernel or weights and the
\* biases; a pooling layer is left alone
layer_initialize(self, sample) ==
    CASE self.kind = Convolutional ->
            [self EXCEPT !.kernel = [i \in 1..Len(self.kernel) |-> sample],
                         !.biases = [i \in 1..Len(self.biases) |-> sample]]
      [] self.kind = FullyConnected ->
            [self EXCEPT !.weights = [i \in 1..Len(self.weights) |-> sample],
                         !.biases = [i \in 1..Len(self.biases) |-> sample]]
      [] OTHER -> self

\* the number of inputs initialization::eval divides by: zero for the input
\* placeholder, whose bound is then infinite
initialization_inputs(self) ==
    CASE self.kind = Convolutional -> self.input_depth * self.kernel_size * self.kernel_size
      [] self.kind = FullyConnected -> self.num_inputs
      [] OTHER -> 1

\* NeuralNetwork::initialize.  Whether Uniform::new and Normal::new accept an
\* infinite bound is decided by the rand crates: rejected says that they do
\* not, and the unwrap aborts.
network_initialize(self, layer_index, sample, rejected) ==
    IF layer_index >= Len(self.layers) THEN [network |-> self, result |-> InvalidInput]
    ELSE IF initialization_inputs(At(self.layers, layer_index).layer) = 0 /\ rejected
    THEN [network |-> self, result |-> Panic]
    ELSE [network |-> WithLayer(self, layer_index,
                                layer_initialize(At(self.layers, layer_index).layer, sample)),
          result |-> Ok]

\* NeuralNetwork::new(error_function), nothing registered
EmptyNetwork == NeuralNetwork_new(HalfMeanSquaredError)

InterfaceNetworks == {EmptyNetwork, DenseNetwork, PoolingLastNetwork}

\* input vectors for a network, also for one with no layer
InterfaceInputs(network) ==
    IF Len(network.layers) = 0 THEN {<<>>, <<One>>} ELSE StudyInputs(network)

InterfaceInit ==
    /\ GeometryIdle
    /\ PairIdle
    /\ TrainerIdle
    /\ neural_network \in InterfaceNetworks
    /\ training = [operation |-> "new", result |-> Ok, calls |-> 0]

\* the process is alive and the caller has calls left
MayCall ==
    /\ training.result # Panic
    /\ training.calls < MaxCalls

Called(operation, result) ==
    training' = [operation |-> operation, result |-> result, calls |-> training.calls + 1]

InterfaceSetInput ==
    /\ MayCall
    /\ \E input \in InterfaceInputs(neural_network) :
          \E set \in {network_set_input(neural_network, input)} :
              /\ neural_network' = set.network
              /\ Called("set_input", set.result)
    /\ UNCHANGED <<geometryVars, pairVars, trainerVars>>

InterfaceForwardPropagate ==
    /\ MayCall
    /\ \E forward \in {network_forward_propagate(neural_network)} :
          /\ neural_network' = forward.network
          /\ Called("forward_propagate", forward.result)
    /\ UNCHANGED <<geometryVars, pairVars, trainerVars>>

InterfaceBackPropagate ==
    /\ MayCall
    /\ \E target_output \in StudyTargets :
          \E backward \in {network_back_propagate(neural_network, target_output)} :
              /\ neural_network' = backward.network
              /\ Called("back_propagate", backward.result)
    /\ UNCHANGED <<geometryVars, pairVars, trainerVars>>

InterfaceGetError ==
    /\ MayCall
    /\ \E target_output \in StudyTargets :
          Called("get_error", network_get_error(neural_network, target_output))
    /\ UNCHANGED <<neural_network, geometryVars, pairVars, trainerVars>>

InterfaceGetOutput ==
    /\ MayCall
    /\ Called("get_output", network_get_output(neural_network))
    /\ UNCHANGED <<neural_network, geometryVars, pairVars, trainerVars>>

InterfaceInitialize ==
    /\ MayCall
    /\ \E layer_index \in 0..3, sample \in {Rat(1, 2), R(-1)}, rejected \in BOOLEAN :
          \E initialized \in {network_initialize(neural_network, layer_index, sample, rejected)} :
              /\ neural_network' = initialized.network
              /\ Called("initialize", initialized.result)
    /\ UNCHANGED <<geometryVars, pairVars, trainerVars>>

InterfaceNext ==
    \/ InterfaceSetInput
    \/ InterfaceForwardPropagate
    \/ InterfaceBackPropagate
    \/ InterfaceGetError
    \/ InterfaceGetOutput
    \/ InterfaceInitialize

InterfaceSpec == InterfaceInit /\ [][InterfaceNext]_vars

\* C27: on a network with no layers, and on any other, set_input,
\* forward_propagate, back_propagate, get_error, get_output and initialize
\* return Ok or a typed error: none of them aborts the process.
C27_InterfaceNeverAborts ==
    training # <<>> => training.result # Panic

\* the samples the workers have put through back_propagate since start_batch
RECURSIVE SamplesAccumulated(_)
SamplesAccumulated(w) ==
    IF w = 0 THEN 0 ELSE SamplesAccumulated(w - 1) + Len(workers[w].processed)

\* C28: the sample_count handed to end_batch is the number of samples
\* accumulated since the matching start_batch, whatever the length of the
\* training set and the batch size (a short last batch included): the master
\* after end_batch is the master before it with the gradients applied at
\* learning_rate divided by that number.
C28_SampleCountIsSamplesAccumulated ==
    [][ ( /\ coordinator # <<>>
          /\ coordinator.pc = "end_batch"
          /\ coordinator'.pc = "next_batch" ) =>
            /\ SamplesAccumulated(Len(workers)) = Len(CurrentBatch)
            /\ instances'[Master] = end_batch(instances[Master], SamplesAccumulated(Len(workers)),
                                              job.learning_rate, Rat(9, 10), Rat(1, 2000)) ]_vars

\* C29: the input placeholder make_input_layer(padding, (w, h, d)) is a
\* convolutional layer with kernel_size 0, stride 0, num_kernels 1 and empty
\* kernel, bias, kernel-gradient and bias-gradient buffers, and so contributes
\* no entry to collect_gradients.
C29_InputPlaceholderHasNoParameters ==
    (neural_network # <<>> /\ Len(neural_network.layers) > 0) =>
        \E input \in {neural_network.layers[1].layer} :
            /\ input.kind = Convolutional
            /\ input.kernel_size = 0
            /\ input.stride = 0
            /\ input.num_kernels = 1
            /\ input.kernel = <<>>
            /\ input.biases = <<>>
            /\ input.kernel_gradients = <<>>
            /\ input.bias_gradients = <<>>
            /\ layer_gradients(input) = <<>>

\* g(ox, oy, c): the back-activated gradient of an output cell
BackGradient(layer, ox, oy, c) ==
    layer.back_activated_volume[c + layer.dimension[3] * (oy + layer.dimension[2] * ox) + 1]

\* the number of the kernel weight (kx, ky, z, c), from 1
KernelNumber(layer, kx, ky, z, c) ==
    c * (layer.kernel_size * layer.kernel_size * layer.input_depth)
    + z * (layer.kernel_size * layer.kernel_size) + ky * layer.kernel_size + kx + 1

\* the sum of term(ox, oy) over the output positions of a layer
SumOverPositions(layer, term(_, _)) ==
    RSum([n \in 1..(layer.dimension[1] * layer.dimension[2]) |->
            term((n - 1) % layer.dimension[1], (n - 1) \div layer.dimension[1])])

\* the sum of term(kx, ky) over the offsets of a kernel
SumOverOffsets(layer, term(_, _)) ==
    RSum([n \in 1..(layer.kernel_size * layer.kernel_size) |->
            term((n - 1) % layer.kernel_size, (n - 1) \div layer.kernel_size)])

\* the gradient of the real input cell (x, y, z): kernel weight times g, summed
\* over the channels, the output positions and the offsets under which the
\* window of the position lies on the cell
ReferenceUpstreamGradient(input, layer, x, y, z) ==
    RSum([cc \in 1..layer.dimension[3] |->
        SumOverPositions(layer, LAMBDA ox, oy :
            SumOverOffsets(layer, LAMBDA kx, ky :
                IF /\ ox * layer.stride + kx = x + input.zero_padding
                   /\ oy * layer.stride + ky = y + input.zero_padding
                THEN RMul(layer.kernel[KernelNumber(layer, kx, ky, z, cc - 1)],
                          BackGradient(layer, ox, oy, cc - 1))
                ELSE Zero))])

\* what a call adds to the gradient of the kernel weight (kx, ky, z, c): the
\* input cell under the offset times g, summed over the output positions
ReferenceKernelGradient(input, layer, kx, ky, z, c) ==
    SumOverPositions(layer, LAMBDA ox, oy :
        RMul(PaddedCell(input, ox * layer.stride + kx, oy * layer.stride + ky, z),
             BackGradient(layer, ox, oy, c)))

\* what a call adds to the bias gradient of channel c
ReferenceBiasGradient(layer, c) ==
    RMul(R(layer.input_depth), SumOverPositions(layer, LAMBDA ox, oy : BackGradient(layer, ox, oy, c)))

\* C30: convolve_back zeroes the upstream gradient buffer and then, for every
\* output position with back-activated gradient g, adds input value times g to
\* the kernel gradient and kernel weight times g to the upstream gradient for
\* every real input cell under the window, and g times input_depth to the bias
\* gradient; positions with g = 0 contribute nothing.  Stated for upstream
\* layers whose depth is the layer's declared input_depth.
C30_ConvolveBackAccumulates ==
    [][ ( /\ outcome # <<>>
          /\ outcome.backward = Pending
          /\ outcome'.backward = Ok
          /\ downstream.kind = Convolutional
          /\ upstream.kind # FullyConnected
          /\ upstream.dimension[3] = downstream.input_depth ) =>
            /\ \A cell \in InputCells(upstream) :
                  Cell(upstream'.volume_gradients, upstream.dimension, cell[1], cell[2], cell[3]) =
                      ReferenceUpstreamGradient(upstream, downstream, cell[1], cell[2], cell[3])
            /\ \A o \in Offsets(downstream.kernel_size), z \in 0..(downstream.input_depth - 1),
                  c \in 0..(downstream.dimension[3] - 1) :
                  downstream'.kernel_gradients[KernelNumber(downstream, o[1], o[2], z, c)] =
                      RAdd(downstream.kernel_gradients[KernelNumber(downstream, o[1], o[2], z, c)],
                           ReferenceKernelGradient(upstream, downstream, o[1], o[2], z, c))
            /\ \A c \in 0..(downstream.dimension[3] - 1) :
                  downstream'.bias_gradients[c + 1] =
                      RAdd(downstream.bias_gradients[c + 1], ReferenceBiasGradient(downstream, c)) ]_vars

===========================================================================
